---- MODULE Spec2Model ----
(***************************************************************************)
(* Fact-verification pipeline of teapot-facts: TeapotFactChecker           *)
(* (app/services/fact_checker.py) and the heuristics duplicated in         *)
(* app/services/fact_checker_utils.py.                                     *)
(*                                                                         *)
(* Strings are sequences of one-character strings.  An Optional value is   *)
(* a sequence of length at most one: None is <<>>, a supplied value v is   *)
(* <<v>>.  A dict is a record; dict.get is Get.  Confidence values are     *)
(* counted in tenths (9 is 0.9, 1 is 0.1, 0 is 0.0): for the markers       *)
(* counts 0..8 the double-precision results of max(0.1, base - 0.1 * n)    *)
(* are ordered, and compare with 0.1, 0.5 and 0.9, exactly as the tenths   *)
(* do.                                                                     *)
(***************************************************************************)
EXTENDS Integers, Sequences, FiniteSets, TLC

VARIABLES
  stored_documents,  \* self.stored_documents, shared by all calls on the instance
  model_documents,   \* the documents attribute of self.model (fallback provider)
  pc,                \* per caller: "idle", "query" (inside model.query), "done"
  args,              \* per caller: the arguments of the call in progress
  pending,           \* per caller: the model.query invocation in flight
  model_calls,       \* per caller: the model.query invocations of the call in progress
  model_outcome,     \* per caller: how model.query ended, <<>> while it has not
  result,            \* per caller: <<>> or <<r>>, r the value check_fact returned
  raised,            \* per caller: whether an exception left check_fact
  h,                 \* application of one pure function to drawn inputs
  previous,          \* history: <<>> or the last call that ended, with its result
  stored_by,         \* history: for each element of stored_documents, who appended it
  read_from,         \* history, per caller: stored_by when its sources were built
  appended,          \* per caller: how many documents its storing loop has appended
  ext,               \* <<>> or the last /extract request with its response
  http               \* <<>> or the completion request in service, with its response once built

vars == <<stored_documents, model_documents, pc, args, pending, model_calls,
          model_outcome, result, raised, h, previous, stored_by, read_from, appended,
          ext, http>>

\* what the calls of check_fact alone leave as it is
Aux == <<previous, stored_by, read_from, appended, ext, http>>

----------------------------------------------------------------------------
(* Bounds *)

NumCallers == 2
MaxDocs == 2
MaxRepeat == 2
MaxMessages == 3

Callers == 1..NumCallers

----------------------------------------------------------------------------
(* Python built-ins used by the code *)

LowerOf ==
  [A |-> "a", B |-> "b", C |-> "c", D |-> "d", E |-> "e", F |-> "f", G |-> "g", H |-> "h", I |-> "i", J |-> "j", K |-> "k", L |-> "l", M |-> "m", N |-> "n", O |-> "o", P |-> "p", Q |-> "q", R |-> "r", S |-> "s", T |-> "t", U |-> "u", V |-> "v", W |-> "w", X |-> "x", Y |-> "y", Z |-> "z"]

\* str.lower() on ASCII text
lower(s) ==
  [i \in 1..Len(s) |-> IF s[i] \in DOMAIN LowerOf THEN LowerOf[s[i]] ELSE s[i]]

\* the substring test "p in t"
is_in(p, t) ==
  \E i \in 0..(Len(t) - Len(p)) : \A j \in 1..Len(p) : t[i + j] = p[j]

\* dict.get(key, default)
Get(d, key, default) == IF key \in DOMAIN d THEN d[key] ELSE default

\* max(a, b)
max(a, b) == IF a >= b THEN a ELSE b

\* truthiness of an Optional[str] or Optional[list]: None and empty are falsy
Truthy(opt) == opt # <<>> /\ opt[1] # <<>>

None == <<>>
Some(v) == <<v>>

----------------------------------------------------------------------------
(* Refusal detector and confidence estimator *)

refusal_phrases ==
  << <<"c","a","n","n","o","t"," ","a","n","s","w","e","r">>,
     <<"d","o","n","'","t"," ","h","a","v","e"," ","e","n","o","u","g","h"," ","i","n","f","o","r","m","a","t","i","o","n">>,
     <<"i","n","s","u","f","f","i","c","i","e","n","t"," ","c","o","n","t","e","x","t">>,
     <<"c","a","n","n","o","t"," ","b","e"," ","d","e","t","e","r","m","i","n","e","d">>,
     <<"n","o","t"," ","e","n","o","u","g","h"," ","i","n","f","o","r","m","a","t","i","o","n">>,
     <<"c","a","n","n","o","t"," ","b","e"," ","v","e","r","i","f","i","e","d">>,
     <<"I"," ","d","o","n","'","t"," ","k","n","o","w">>,
     <<"N","o"," ","i","n","f","o","r","m","a","t","i","o","n"," ","p","r","o","v","i","d","e","d">> >>

uncertainty_markers ==
  << <<"p","o","s","s","i","b","l","y">>,
     <<"p","e","r","h","a","p","s">>,
     <<"m","a","y","b","e">>,
     <<"m","i","g","h","t">>,
     <<"c","o","u","l","d"," ","b","e">>,
     <<"a","p","p","e","a","r","s"," ","t","o"," ","b","e">>,
     <<"s","e","e","m","s">>,
     <<"l","i","k","e","l","y">> >>

\* _contains_refusal_phrases with the phrases compared as written in the list
_contains_refusal_phrases_as_written(text) ==
  \E k \in 1..Len(refusal_phrases) : is_in(refusal_phrases[k], lower(text))

\* TeapotFactChecker._contains_refusal_phrases
_contains_refusal_phrases(text) ==
  \E k \in 1..Len(refusal_phrases) : is_in(lower(refusal_phrases[k]), lower(text))

\* _estimate_confidence without the override for refusals
_estimate_confidence_no_override(text, has_context) ==
  LET markers_count ==
        Cardinality({k \in 1..Len(uncertainty_markers) :
                       is_in(lower(uncertainty_markers[k]), lower(text))})
      base_confidence == IF has_context THEN 9 ELSE 3
  IN  max(1, base_confidence - (1 * markers_count))

\* _estimate_confidence with the markers searched in the text as written
_estimate_confidence_case_sensitive(text, has_context) ==
  LET markers_count ==
        Cardinality({k \in 1..Len(uncertainty_markers) :
                       is_in(lower(uncertainty_markers[k]), text)})
      base_confidence == IF has_context THEN 9 ELSE 3
      confidence == max(1, base_confidence - (1 * markers_count))
  IN  IF _contains_refusal_phrases(text) THEN 1 ELSE confidence

\* _estimate_confidence with the markers added to the base
_estimate_confidence_added(text, has_context) ==
  LET markers_count ==
        Cardinality({k \in 1..Len(uncertainty_markers) :
                       is_in(lower(uncertainty_markers[k]), lower(text))})
      base_confidence == IF has_context THEN 9 ELSE 3
      confidence == max(1, base_confidence + (1 * markers_count))
  IN  IF _contains_refusal_phrases(text) THEN 1 ELSE confidence

\* _estimate_confidence without max(0.1, ...)
_estimate_confidence_no_floor(text, has_context) ==
  LET markers_count ==
        Cardinality({k \in 1..Len(uncertainty_markers) :
                       is_in(lower(uncertainty_markers[k]), lower(text))})
      base_confidence == IF has_context THEN 9 ELSE 3
      confidence == base_confidence - (1 * markers_count)
  IN  IF _contains_refusal_phrases(text) THEN 1 ELSE confidence

\* TeapotFactChecker._estimate_confidence, in tenths
_estimate_confidence(text, has_context) ==
  LET markers_count ==
        Cardinality({k \in 1..Len(uncertainty_markers) :
                       is_in(lower(uncertainty_markers[k]), lower(text))})
      base_confidence == IF has_context THEN 9 ELSE 3
      confidence == max(1, base_confidence - (1 * markers_count))
  IN  IF _contains_refusal_phrases(text) THEN 1 ELSE confidence

\* fact_checker_utils.contains_refusal_phrases (same phrase list, same test)
contains_refusal_phrases(text) ==
  \E k \in 1..Len(refusal_phrases) : is_in(lower(refusal_phrases[k]), lower(text))

\* estimate_confidence without the floor
estimate_confidence_no_floor(text, has_context) ==
  LET markers_count ==
        Cardinality({k \in 1..Len(uncertainty_markers) :
                       is_in(lower(uncertainty_markers[k]), lower(text))})
      base_confidence == IF has_context THEN 9 ELSE 3
      confidence == base_confidence - (1 * markers_count)
  IN  IF contains_refusal_phrases(text) THEN 1 ELSE confidence

\* fact_checker_utils.estimate_confidence, in tenths
estimate_confidence(text, has_context) ==
  LET markers_count ==
        Cardinality({k \in 1..Len(uncertainty_markers) :
                       is_in(lower(uncertainty_markers[k]), lower(text))})
      base_confidence == IF has_context THEN 9 ELSE 3
      confidence == max(1, base_confidence - (1 * markers_count))
  IN  IF contains_refusal_phrases(text) THEN 1 ELSE confidence

----------------------------------------------------------------------------
(* Source normalizer *)

\* the truncation applied from 200 characters on
Truncate_from_200(content) ==
  IF Len(content) >= 200 THEN SubSeq(content, 1, 200) \o <<".", ".", ".">> ELSE content

\* content[:200] + "..." if len(content) > 200 else content
Truncate(content) ==
  IF Len(content) > 200 THEN SubSeq(content, 1, 200) \o <<".", ".", ".">> ELSE content

\* the loop over self.stored_documents with equal entries appended once
RECURSIVE Deduplicated(_)
Deduplicated(entries) ==
  IF entries = <<>> THEN <<>>
  ELSE LET init == Deduplicated(SubSeq(entries, 1, Len(entries) - 1))
           last == entries[Len(entries)]
       IN  IF \E i \in 1..Len(init) : init[i] = last THEN init ELSE Append(init, last)

StoredSources_deduplicated(stored) ==
  Deduplicated([i \in 1..Len(stored) |->
                  [text |-> Truncate(Get(stored[i], "content", <<>>)),
                   metadata |-> Get(stored[i], "metadata", <<>>)]])

\* the loop over self.stored_documents in _get_sources
StoredSources(stored) ==
  [i \in 1..Len(stored) |->
     [text |-> Truncate(Get(stored[i], "content", <<>>)),
      metadata |-> Get(stored[i], "metadata", <<>>)]]

\* one element of model.documents converted to a source entry; an element
\* whose conversion raises has no entry
FallbackRaises(doc) == doc.kind = "object" /\ doc.content = None

FallbackEntry(doc) ==
  CASE doc.kind = "str" ->
         [text |-> Truncate(doc.value), metadata |-> <<>>]
    [] doc.kind = "object" ->
         [text |-> Truncate(doc.content[1]), metadata |-> Get(doc, "metadata", <<>>)]
    [] doc.kind = "dict" ->
         [text |-> Truncate(Get(doc.value, "content", doc.str)),
          metadata |-> Get(doc.value, "metadata", <<>>)]
    [] OTHER ->
         [text |-> Truncate(doc.str), metadata |-> <<>>]

\* the loop over model.documents in _get_sources: entries are appended one by
\* one, and an exception ends the loop with what was appended so far
RECURSIVE FallbackSources(_)
FallbackSources(docs) ==
  IF docs = <<>> \/ FallbackRaises(Head(docs)) THEN <<>>
  ELSE <<FallbackEntry(Head(docs))>> \o FallbackSources(Tail(docs))

\* _get_sources reading the model's documents only
_get_sources_of_model_only(stored, model) ==
  IF model.has_documents /\ ~model.raises /\ model.documents # <<>>
  THEN FallbackSources(model.documents)
  ELSE <<>>

\* _get_sources without an entry for a stored document that has no content
_get_sources_of_contents_only(stored, model) ==
  LET sources == StoredSources(SelectSeq(stored, LAMBDA d : Get(d, "content", <<>>) # <<>>))
  IN  IF sources # <<>> THEN sources
      ELSE IF model.has_documents /\ ~model.raises /\ model.documents # <<>>
           THEN FallbackSources(model.documents)
           ELSE <<>>

\* TeapotFactChecker._get_sources
_get_sources(stored, model) ==
  LET sources == IF stored # <<>> THEN StoredSources(stored) ELSE <<>>
  IN  IF sources # <<>> THEN sources
      ELSE IF model.has_documents /\ ~model.raises /\ model.documents # <<>>
           THEN FallbackSources(model.documents)
           ELSE <<>>

\* fact_checker_utils.process_sources (the same two loops)
process_sources(stored, model) ==
  LET sources == IF stored # <<>> THEN StoredSources(stored) ELSE <<>>
  IN  IF sources # <<>> THEN sources
      ELSE IF model.has_documents /\ ~model.raises /\ model.documents # <<>>
           THEN FallbackSources(model.documents)
           ELSE <<>>

----------------------------------------------------------------------------
(* Results *)

\* TeapotFactChecker._create_error_response; confidence 0 is 0.0
_create_error_response(error_message) ==
  [error |-> error_message, factual |-> FALSE, answer |-> error_message,
   confidence |-> 0, sources |-> <<>>]

\* TeapotFactChecker._process_result
_process_result(res, has_context, stored, model) ==
  LET is_factual == ~_contains_refusal_phrases(res)
      confidence == _estimate_confidence(res, has_context)
      sources == _get_sources(stored, model)
  IN  [factual |-> is_factual, answer |-> res, confidence |-> confidence,
       sources |-> sources]

MsgEmptyQuery == <<"Q","u","e","r","y"," ","c","a","n","n","o","t"," ","b","e"," ","e","m","p","t","y">>
MsgConnection == <<"C","o","n","n","e","c","t","i","o","n"," ","e","r","r","o","r",":"," ">>
MsgTimeout == <<"R","e","q","u","e","s","t"," ","t","i","m","e","d"," ","o","u","t",":"," ">>
MsgValue == <<"I","n","v","a","l","i","d"," ","i","n","p","u","t",":"," ">>
MsgOther == <<"E","r","r","o","r"," ","o","c","c","u","r","r","e","d"," ","d","u","r","i","n","g"," ","f","a","c","t"," ","c","h","e","c","k","i","n","g",":"," ">>

\* the except clauses of check_fact, tried in order; e is [type, msg]
ExceptionTypes == {"ConnectionError", "TimeoutError", "ValueError", "RuntimeError"}

HandlerMessage(e) ==
  CASE e.type = "ConnectionError" -> MsgConnection \o e.msg
    [] e.type = "TimeoutError" -> MsgTimeout \o e.msg
    [] e.type = "ValueError" -> MsgValue \o e.msg
    [] OTHER -> MsgOther \o e.msg

\* the except clauses without the last one
Caught_named_only(e) == e.type \in {"ConnectionError", "TimeoutError", "ValueError"}

\* whether one of the except clauses of check_fact catches e
Caught(e) == e.type \in ExceptionTypes

----------------------------------------------------------------------------
(* check_fact *)

\* the request's documents appended to those already stored
StoredFrom_appended(documents) ==
  stored_documents \o
    [i \in 1..Len(documents) |->
       [content |-> Get(documents[i], "content", <<>>),
        metadata |-> Get(documents[i], "metadata", <<>>)]]

\* the copy of the request's documents into self.stored_documents
StoredFrom(documents) ==
  [i \in 1..Len(documents) |->
     [content |-> Get(documents[i], "content", <<>>),
      metadata |-> Get(documents[i], "metadata", <<>>)]]

\* "\n\n".join(parts)
RECURSIVE Join(_)
Join(parts) ==
  IF parts = <<>> THEN <<>>
  ELSE IF Len(parts) = 1 THEN parts[1]
  ELSE parts[1] \o <<"\n", "\n">> \o Join(Tail(parts))

\* [doc.get("content", "") for doc in docs if doc.get("content")]
RECURSIVE NonEmptyContents(_)
NonEmptyContents(docs) ==
  IF docs = <<>> THEN <<>>
  ELSE LET c == Get(Head(docs), "content", <<>>)
       IN  (IF c # <<>> THEN <<c>> ELSE <<>>) \o NonEmptyContents(Tail(docs))

\* the join of all contents, the empty ones included
combined_context_all_contents(docs) ==
  Join([i \in 1..Len(docs) |-> Get(docs[i], "content", <<>>)])

\* the "\n\n".join of the contents of the stored documents that have one
combined_context(docs) == Join(NonEmptyContents(docs))

\* entry into self.model.query(query=..., context=...); has_context is the
\* argument the caller will pass to _process_result when the model returns
ModelQuery(t, query, context, has_context) ==
  /\ pending' = [pending EXCEPT ![t] =
                   Some([query |-> query, context |-> context, has_context |-> has_context])]
  /\ model_calls' = [model_calls EXCEPT ![t] =
                       <<[query |-> query, context |-> context]>>]
  /\ pc' = [pc EXCEPT ![t] = "query"]
  /\ UNCHANGED <<model_outcome, result, raised>>

\* _process_without_context reporting has_context = True
_process_without_context_as_context(t, query) == ModelQuery(t, query, None, TRUE)

\* TeapotFactChecker._process_without_context, up to the model call
_process_without_context(t, query) == ModelQuery(t, query, None, FALSE)

\* TeapotFactChecker._process_with_context, up to the model call
_process_with_context(t, query, context) == ModelQuery(t, query, Some(context), TRUE)

\* _process_with_documents reporting has_context = False
_process_with_documents_as_no_context(t, query, documents) ==
  LET stored == StoredFrom(documents)
      cc == combined_context(stored)
  IN  /\ stored_documents' = stored
      /\ IF cc = <<>>
         THEN ModelQuery(t, query, None, FALSE)
         ELSE ModelQuery(t, query, Some(cc), FALSE)

\* _process_with_documents keeping has_context = True when no document has
\* a content
_process_with_documents_without_fall_through(t, query, documents) ==
  LET stored == StoredFrom(documents)
      cc == combined_context(stored)
  IN  /\ stored_documents' = stored
      /\ IF cc = <<>>
         THEN ModelQuery(t, query, None, TRUE)
         ELSE ModelQuery(t, query, Some(cc), TRUE)

\* TeapotFactChecker._process_with_documents, up to the model call
_process_with_documents(t, query, documents) ==
  LET stored == StoredFrom(documents)
      cc == combined_context(stored)
  IN  /\ stored_documents' = stored
      /\ IF cc = <<>>
         THEN _process_without_context(t, query)
         ELSE ModelQuery(t, query, Some(cc), TRUE)

\* check_fact with the context tested before the documents
check_fact_context_first(t, query, context, documents) ==
  /\ pc[t] = "idle"
  /\ args' = [args EXCEPT ![t] =
                Some([query |-> query, context |-> context, documents |-> documents])]
  /\ IF query = <<>>
     THEN /\ result' = [result EXCEPT ![t] = Some(_create_error_response(MsgEmptyQuery))]
          /\ pc' = [pc EXCEPT ![t] = "done"]
          /\ model_calls' = [model_calls EXCEPT ![t] = <<>>]
          /\ UNCHANGED <<stored_documents, pending, model_outcome, raised>>
     ELSE IF Truthy(context)
     THEN ModelQuery(t, query, Some(context[1]), TRUE) /\ UNCHANGED stored_documents
     ELSE IF Truthy(documents)
     THEN LET stored == StoredFrom(documents[1])
              cc == combined_context(stored)
          IN  /\ stored_documents' = stored
              /\ IF cc = <<>>
                 THEN ModelQuery(t, query, None, FALSE)
                 ELSE ModelQuery(t, query, Some(cc), TRUE)
     ELSE ModelQuery(t, query, None, FALSE) /\ UNCHANGED stored_documents
  /\ UNCHANGED <<model_documents, h>>

\* check_fact without the test for an empty query
check_fact_no_empty_test(t, query, context, documents) ==
  /\ pc[t] = "idle"
  /\ args' = [args EXCEPT ![t] =
                Some([query |-> query, context |-> context, documents |-> documents])]
  /\ IF Truthy(documents)
     THEN LET stored == StoredFrom(documents[1])
              cc == combined_context(stored)
          IN  /\ stored_documents' = stored
              /\ IF cc = <<>>
                 THEN ModelQuery(t, query, None, FALSE)
                 ELSE ModelQuery(t, query, Some(cc), TRUE)
     ELSE IF Truthy(context)
     THEN ModelQuery(t, query, Some(context[1]), TRUE) /\ UNCHANGED stored_documents
     ELSE ModelQuery(t, query, None, FALSE) /\ UNCHANGED stored_documents
  /\ UNCHANGED <<model_documents, h>>

\* check_fact storing the documents before the test for an empty query
check_fact_storing_first(t, query, context, documents) ==
  /\ pc[t] = "idle"
  /\ args' = [args EXCEPT ![t] =
                Some([query |-> query, context |-> context, documents |-> documents])]
  /\ IF query = <<>>
     THEN /\ result' = [result EXCEPT ![t] = Some(_create_error_response(MsgEmptyQuery))]
          /\ pc' = [pc EXCEPT ![t] = "done"]
          /\ model_calls' = [model_calls EXCEPT ![t] = <<>>]
          /\ stored_documents' = IF Truthy(documents) THEN StoredFrom(documents[1])
                                 ELSE stored_documents
          /\ UNCHANGED <<pending, model_outcome, raised>>
     ELSE IF Truthy(documents)
     THEN _process_with_documents(t, query, documents[1])
     ELSE IF Truthy(context)
     THEN _process_with_context(t, query, context[1]) /\ UNCHANGED stored_documents
     ELSE _process_without_context(t, query) /\ UNCHANGED stored_documents
  /\ UNCHANGED <<model_documents, h>>

\* check_fact emptying the stored documents of a call without documents
check_fact_forgetting(t, query, context, documents) ==
  /\ pc[t] = "idle"
  /\ args' = [args EXCEPT ![t] =
                Some([query |-> query, context |-> context, documents |-> documents])]
  /\ IF query = <<>>
     THEN /\ result' = [result EXCEPT ![t] = Some(_create_error_response(MsgEmptyQuery))]
          /\ pc' = [pc EXCEPT ![t] = "done"]
          /\ model_calls' = [model_calls EXCEPT ![t] = <<>>]
          /\ UNCHANGED <<stored_documents, pending, model_outcome, raised>>
     ELSE IF Truthy(documents)
     THEN _process_with_documents(t, query, documents[1])
     ELSE IF Truthy(context)
     THEN _process_with_context(t, query, context[1]) /\ stored_documents' = <<>>
     ELSE _process_without_context(t, query) /\ stored_documents' = <<>>
  /\ UNCHANGED <<model_documents, h>>

\* TeapotFactChecker.check_fact, from the call to the model call or, for an
\* empty query, to the return
check_fact(t, query, context, documents) ==
  /\ pc[t] = "idle"
  /\ args' = [args EXCEPT ![t] =
                Some([query |-> query, context |-> context, documents |-> documents])]
  /\ IF query = <<>>
     THEN /\ result' = [result EXCEPT ![t] = Some(_create_error_response(MsgEmptyQuery))]
          /\ pc' = [pc EXCEPT ![t] = "done"]
          /\ model_calls' = [model_calls EXCEPT ![t] = <<>>]
          /\ UNCHANGED <<stored_documents, pending, model_outcome, raised>>
     ELSE IF Truthy(documents)
     THEN _process_with_documents(t, query, documents[1])
     ELSE IF Truthy(context)
     THEN _process_with_context(t, query, context[1]) /\ UNCHANGED stored_documents
     ELSE _process_without_context(t, query) /\ UNCHANGED stored_documents
  /\ UNCHANGED <<model_documents, h>>

\* model_returns with the sources built from the call's own documents
model_returns_own_documents(t, answer) ==
  /\ pc[t] = "query"
  /\ result' = [result EXCEPT ![t] =
       Some(_process_result(answer, pending[t][1].has_context,
                            IF Truthy(args[t][1].documents)
                            THEN StoredFrom(args[t][1].documents[1])
                            ELSE stored_documents,
                            model_documents))]
  /\ model_outcome' = [model_outcome EXCEPT ![t] = Some([returned |-> answer])]
  /\ pc' = [pc EXCEPT ![t] = "done"]
  /\ pending' = [pending EXCEPT ![t] = None]
  /\ UNCHANGED <<stored_documents, model_documents, args, model_calls, raised, h>>

\* self.model.query returns answer: _process_result builds the value that
\* check_fact returns, reading self.stored_documents as it is now
model_returns(t, answer) ==
  /\ pc[t] = "query"
  /\ result' = [result EXCEPT ![t] =
       Some(_process_result(answer, pending[t][1].has_context,
                            stored_documents, model_documents))]
  /\ model_outcome' = [model_outcome EXCEPT ![t] = Some([returned |-> answer])]
  /\ pc' = [pc EXCEPT ![t] = "done"]
  /\ pending' = [pending EXCEPT ![t] = None]
  /\ UNCHANGED <<stored_documents, model_documents, args, model_calls, raised, h>>

\* model_raises with the stored documents emptied by the except clauses
model_raises_forgetting(t, e) ==
  /\ pc[t] = "query"
  /\ IF Caught(e)
     THEN /\ result' = [result EXCEPT ![t] = Some(_create_error_response(HandlerMessage(e)))]
          /\ UNCHANGED raised
     ELSE /\ raised' = [raised EXCEPT ![t] = TRUE]
          /\ UNCHANGED result
  /\ model_outcome' = [model_outcome EXCEPT ![t] = Some([raised |-> e])]
  /\ pc' = [pc EXCEPT ![t] = "done"]
  /\ pending' = [pending EXCEPT ![t] = None]
  /\ stored_documents' = <<>>
  /\ UNCHANGED <<model_documents, args, model_calls, h>>

\* self.model.query raises e: the except clauses of check_fact
model_raises(t, e) ==
  /\ pc[t] = "query"
  /\ IF Caught(e)
     THEN /\ result' = [result EXCEPT ![t] = Some(_create_error_response(HandlerMessage(e)))]
          /\ UNCHANGED raised
     ELSE /\ raised' = [raised EXCEPT ![t] = TRUE]
          /\ UNCHANGED result
  /\ model_outcome' = [model_outcome EXCEPT ![t] = Some([raised |-> e])]
  /\ pc' = [pc EXCEPT ![t] = "done"]
  /\ pending' = [pending EXCEPT ![t] = None]
  /\ UNCHANGED <<stored_documents, model_documents, args, model_calls, h>>

\* the caller takes the returned value; the caller is free for its next call
call_ends(t) ==
  /\ pc[t] = "done"
  /\ pc' = [pc EXCEPT ![t] = "idle"]
  /\ args' = [args EXCEPT ![t] = None]
  /\ result' = [result EXCEPT ![t] = None]
  /\ model_calls' = [model_calls EXCEPT ![t] = <<>>]
  /\ model_outcome' = [model_outcome EXCEPT ![t] = None]
  /\ raised' = [raised EXCEPT ![t] = FALSE]
  /\ UNCHANGED <<stored_documents, model_documents, pending, h>>

----------------------------------------------------------------------------
(* Structured extraction: TeapotFactChecker.extract_information and the     *)
(* /extract route.  What self.model.extract gives is either raised |-> e or *)
(* returned |-> v, v being a BaseModel instance (kind "model", dumps saying *)
(* whether model_dump() returns), a dict (kind "dict") or any other value   *)
(* (kind "opaque", str_raises saying whether str() of it raises).           *)

MsgMissingContext ==
  <<"C","o","n","t","e","x","t"," ","i","s"," ","r","e","q","u","i","r","e","d"," ","f",
    "o","r"," ","i","n","f","o","r","m","a","t","i","o","n"," ","e","x","t","r","a","c",
    "t","i","o","n">>

MsgExtractionFailed ==
  <<"E","x","t","r","a","c","t","i","o","n"," ","f","a","i","l","e","d",":"," ">>

\* type_mapping.get(field.type.lower(), str), the Python types by name
python_type(type) ==
  LET ty == lower(type)
  IN  IF ty = <<"s","t","r","i","n","g">> THEN "str"
      ELSE IF ty = <<"n","u","m","b","e","r">> THEN "float"
      ELSE IF ty = <<"i","n","t","e","g","e","r">> THEN "int"
      ELSE IF ty = <<"b","o","o","l","e","a","n">> THEN "bool"
      ELSE "str"

\* __annotations__ of the dynamic model: the fields in request order
field_annotations(fields) ==
  [i \in 1..Len(fields) |-> [name |-> fields[i].name, type |-> python_type(fields[i].type)]]

\* extract_information without the test for a missing context
extract_information_unchecked(model_class, query, context, documents, outcome) ==
  LET from_documents == Truthy(documents) /\ ~Truthy(context)
      ctx == IF from_documents THEN Join(NonEmptyContents(documents[1]))
             ELSE IF Truthy(context) THEN context[1] ELSE <<>>
      stored == IF from_documents THEN documents[1] ELSE stored_documents
      call == [model_class |-> model_class, context |-> ctx,
               query |-> IF Truthy(query) THEN query ELSE None]
  IN  IF "raised" \in DOMAIN outcome
      THEN [stored |-> stored, calls |-> <<call>>,
            value |-> [kind |-> "dict",
                       data |-> _create_error_response(MsgExtractionFailed \o outcome.raised.msg)]]
      ELSE [stored |-> stored, calls |-> <<call>>, value |-> outcome.returned]

\* extract_information leaving the stored documents as they are
extract_information_not_storing(model_class, query, context, documents, outcome) ==
  LET from_documents == Truthy(documents) /\ ~Truthy(context)
      ctx == IF from_documents THEN Join(NonEmptyContents(documents[1]))
             ELSE IF Truthy(context) THEN context[1] ELSE <<>>
      call == [model_class |-> model_class, context |-> ctx,
               query |-> IF Truthy(query) THEN query ELSE None]
  IN  IF ctx = <<>>
      THEN [stored |-> stored_documents, calls |-> <<>>,
            value |-> [kind |-> "dict",
                       data |-> _create_error_response(MsgMissingContext)]]
      ELSE IF "raised" \in DOMAIN outcome
      THEN [stored |-> stored_documents, calls |-> <<call>>,
            value |-> [kind |-> "dict",
                       data |-> _create_error_response(MsgExtractionFailed \o outcome.raised.msg)]]
      ELSE [stored |-> stored_documents, calls |-> <<call>>, value |-> outcome.returned]

\* TeapotFactChecker.extract_information: the stored documents it leaves, the
\* invocations of self.model.extract it makes and the value it returns
extract_information(model_class, query, context, documents, outcome) ==
  LET from_documents == Truthy(documents) /\ ~Truthy(context)
      ctx == IF from_documents THEN Join(NonEmptyContents(documents[1]))
             ELSE IF Truthy(context) THEN context[1] ELSE <<>>
      stored == IF from_documents THEN documents[1] ELSE stored_documents
      call == [model_class |-> model_class, context |-> ctx,
               query |-> IF Truthy(query) THEN query ELSE None]
  IN  IF ctx = <<>>
      THEN [stored |-> stored, calls |-> <<>>,
            value |-> [kind |-> "dict",
                       data |-> _create_error_response(MsgMissingContext)]]
      ELSE IF "raised" \in DOMAIN outcome
      THEN [stored |-> stored, calls |-> <<call>>,
            value |-> [kind |-> "dict",
                       data |-> _create_error_response(MsgExtractionFailed \o outcome.raised.msg)]]
      ELSE [stored |-> stored, calls |-> <<call>>, value |-> outcome.returned]

\* ExtractionResponse(success=..., data=..., error=...)
ExtractionResponse(success, data, error) ==
  [success |-> success, data |-> data, error |-> error]

\* the conversion of the extraction result to a dict and its except clause
\* (lines 77-98); <<>> when the exception leaves the inner handler because
\* str(extraction_result) raises there as well
normalized(value) ==
  CASE value.kind = "model" ->
         IF value.dumps
         THEN Some(ExtractionResponse(TRUE, Some(value.data), None))
         ELSE Some(ExtractionResponse(TRUE,
                     Some([result |-> value.text, error |-> value.dump_error]), None))
    [] value.kind = "dict" -> Some(ExtractionResponse(TRUE, Some(value.data), None))
    [] OTHER ->
         IF value.str_raises THEN None
         ELSE Some(ExtractionResponse(TRUE, Some([result |-> value.text]), None))

\* the /extract route without the test for an "error" key in a dict result
route_extract_information_untested(request, schema, outcome) ==
  IF "raised" \in DOMAIN schema
  THEN [stored |-> stored_documents, calls |-> <<>>,
        response |-> Some(ExtractionResponse(FALSE, None,
                            Some(MsgExtractionFailed \o schema.raised.msg)))]
  ELSE LET r == extract_information(field_annotations(request.fields), request.query,
                                    request.context, request.documents, outcome)
           n == normalized(r.value)
       IN  [stored |-> r.stored, calls |-> r.calls,
            response |->
              IF n # None THEN n
              ELSE Some(ExtractionResponse(FALSE, None,
                          Some(MsgExtractionFailed \o r.value.str_error)))]

\* the /extract route without its outer except clause: an exception of the
\* schema construction or of str() leaves the route (response <<>>)
route_extract_information_unguarded(request, schema, outcome) ==
  IF "raised" \in DOMAIN schema
  THEN [stored |-> stored_documents, calls |-> <<>>, response |-> None]
  ELSE LET r == extract_information(field_annotations(request.fields), request.query,
                                    request.context, request.documents, outcome)
       IN  IF r.value.kind = "dict" /\ "error" \in DOMAIN r.value.data
           THEN [stored |-> r.stored, calls |-> r.calls,
                 response |-> Some(ExtractionResponse(FALSE, None, Some(r.value.data.error)))]
           ELSE [stored |-> r.stored, calls |-> r.calls, response |-> normalized(r.value)]

\* the /extract route (routes/fact_check.py): the stored documents it leaves,
\* the invocations of self.model.extract and the response; the response is
\* <<>> only if an exception leaves the route
route_extract_information(request, schema, outcome) ==
  IF "raised" \in DOMAIN schema
  THEN [stored |-> stored_documents, calls |-> <<>>,
        response |-> Some(ExtractionResponse(FALSE, None,
                            Some(MsgExtractionFailed \o schema.raised.msg)))]
  ELSE LET r == extract_information(field_annotations(request.fields), request.query,
                                    request.context, request.documents, outcome)
       IN  IF r.value.kind = "dict" /\ "error" \in DOMAIN r.value.data
           THEN [stored |-> r.stored, calls |-> r.calls,
                 response |-> Some(ExtractionResponse(FALSE, None, Some(r.value.data.error)))]
           ELSE LET n == normalized(r.value)
                IN  [stored |-> r.stored, calls |-> r.calls,
                     response |->
                       IF n # None THEN n
                       ELSE Some(ExtractionResponse(FALSE, None,
                                   Some(MsgExtractionFailed \o r.value.str_error)))]

\* one POST /extract served from the request to the response
extract(request, schema, outcome) ==
  LET served == route_extract_information(request, schema, outcome)
  IN  /\ stored_documents' = served.stored
      /\ ext' = Some([request |-> request, schema |-> schema,
                      outcome |-> IF served.calls = <<>> THEN None ELSE Some(outcome),
                      calls |-> served.calls, response |-> served.response])
      /\ UNCHANGED <<model_documents, pc, args, pending, model_calls, model_outcome,
                     result, raised, h, stored_by, read_from, appended, http>>

----------------------------------------------------------------------------
(* The OpenAI-compatible routes (routes/completions.py) and their helpers   *)
(* (utils.py).  A message is a record of a role and a content.              *)

\* the estimate rounded up
estimate_token_count_rounded_up(text) == (Len(text) + 3) \div 4

\* estimate_token_count: len(text) // 4
estimate_token_count(text) == Len(text) \div 4

ContextMarker == <<"c","o","n","t","e","x","t",":">>
AssistantLabel == <<"A","s","s","i","s","t","a","n","t",":"," ">>

Whitespace == {" ", "\n", "\t", "\r"}

\* str.strip()
RECURSIVE strip(_)
strip(s) ==
  IF s = <<>> THEN s
  ELSE IF Head(s) \in Whitespace THEN strip(Tail(s))
  ELSE IF s[Len(s)] \in Whitespace THEN strip(SubSeq(s, 1, Len(s) - 1))
  ELSE s

\* str.split(sep, 1): the parts around the first occurrence of sep, the
\* whole text alone when sep does not occur
split_once(text, sep) ==
  IF ~is_in(sep, text) THEN <<text>>
  ELSE LET i == CHOOSE i \in 0..(Len(text) - Len(sep)) :
                  /\ \A j \in 1..Len(sep) : text[i + j] = sep[j]
                  /\ \A k \in 0..(i - 1) : \E j \in 1..Len(sep) : text[k + j] # sep[j]
       IN  <<SubSeq(text, 1, i), SubSeq(text, i + Len(sep) + 1, Len(text))>>

\* the loop of extract_context_from_messages over the messages
RECURSIVE scan_messages(_, _)
scan_messages(messages, acc) ==
  IF messages = <<>> THEN acc
  ELSE LET message == Head(messages)
           after ==
             IF message.role = "system"
             THEN [acc EXCEPT !.system_message = message.content]
             ELSE IF message.role = "user"
             THEN [acc EXCEPT !.query = message.content]
             ELSE IF message.role = "assistant" /\ acc.query = <<>>
             THEN [acc EXCEPT !.context = @ \o AssistantLabel \o message.content \o <<"\n">>]
             ELSE acc
       IN  scan_messages(Tail(messages), after)

\* extract_context_from_messages: the query and the context
extract_context_from_messages(messages) ==
  LET acc == scan_messages(messages, [system_message |-> <<>>, context |-> <<>>, query |-> <<>>])
      context_parts == split_once(acc.system_message, ContextMarker)
  IN  [query |-> acc.query,
       context |->
         IF is_in(ContextMarker, lower(acc.system_message)) /\ Len(context_parts) > 1
         THEN strip(context_parts[2]) \o <<"\n">> \o acc.context
         ELSE acc.context]

\* sum(estimate_token_count(msg.content) for msg in request.messages)
RECURSIVE prompt_tokens_of(_)
prompt_tokens_of(messages) ==
  IF messages = <<>> THEN 0
  ELSE estimate_token_count(Head(messages).content) + prompt_tokens_of(Tail(messages))

\* the "usage" object of both responses
usage(prompt_tokens, completion_tokens) ==
  [prompt_tokens |-> prompt_tokens, completion_tokens |-> completion_tokens,
   total_tokens |-> prompt_tokens + completion_tokens]

\* the routes are coroutines that do not await: a request is served to its
\* response before the next one is taken
NoRequestInService == http = None

\* POST /chat/completions up to the model call, or to the 400 response when
\* there is no query
chat_completions(t, messages) ==
  LET qc == extract_context_from_messages(messages)
  IN  /\ NoRequestInService
      /\ IF qc.query = <<>>
         THEN /\ pc[t] = "idle"
              /\ http' = Some([route |-> "chat", caller |-> t, request |-> messages,
                               response |-> Some([status |-> 400])])
              /\ UNCHANGED <<stored_documents, model_documents, pc, args, pending,
                             model_calls, model_outcome, result, raised, h>>
         ELSE /\ check_fact(t, qc.query,
                            IF qc.context # <<>> THEN Some(qc.context) ELSE None, None)
              /\ http' = Some([route |-> "chat", caller |-> t, request |-> messages,
                               response |-> None])
      /\ UNCHANGED <<previous, stored_by, read_from, appended, ext>>

\* POST /completions up to the model call; prompt is <<text>> for a str and
\* a sequence of texts for a list, whose first element is taken
completions(t, prompt) ==
  /\ NoRequestInService
  /\ IF prompt.kind = "list" /\ prompt.value = <<>>
     THEN /\ pc[t] = "idle"
          /\ http' = Some([route |-> "completions", caller |-> t, request |-> prompt,
                           response |-> Some([status |-> 500])])
          /\ UNCHANGED <<stored_documents, model_documents, pc, args, pending,
                         model_calls, model_outcome, result, raised, h>>
     ELSE /\ check_fact(t, prompt.value[1], None, None)
          /\ http' = Some([route |-> "completions", caller |-> t, request |-> prompt,
                           response |-> None])
  /\ UNCHANGED <<previous, stored_by, read_from, appended, ext>>

\* check_fact has returned to the route: the response is assembled
responds(t) ==
  /\ http # None /\ http[1].response = None /\ http[1].caller = t
  /\ call_ends(t)
  /\ http' = Some([http[1] EXCEPT !.response =
       IF raised[t] THEN Some([status |-> 500])
       ELSE LET r == result[t][1]
                prompt_tokens ==
                  IF http[1].route = "chat" THEN prompt_tokens_of(http[1].request)
                  ELSE estimate_token_count(http[1].request.value[1])
            IN  Some([status |-> 200,
                      text |-> r.answer,
                      usage |-> usage(prompt_tokens, estimate_token_count(r.answer)),
                      fact_check |-> [factual |-> r.factual, confidence |-> r.confidence,
                                      sources |-> r.sources]])])
  /\ UNCHANGED <<previous, stored_by, read_from, appended, ext>>

\* the response leaves the server
response_sent ==
  /\ http # None /\ http[1].response # None
  /\ http' = None
  /\ UNCHANGED <<stored_documents, model_documents, pc, args, pending, model_calls,
                 model_outcome, result, raised, h, previous, stored_by, read_from,
                 appended, ext>>

----------------------------------------------------------------------------
(* Inputs *)

\* texts: a head followed by a tail of uncertainty markers
Heads ==
  { <<>>,
    <<"3","3","0"," ","m","e","t","e","r","s">>,
    <<"I"," ","c","a","n","n","o","t"," ","a","n","s","w","e","r"," ","t","h","a","t">>,
    <<"I"," ","D","O","N","'","T"," ","H","A","V","E"," ","E","N","O","U","G","H"," ","I","N","F","O","R","M","A","T","I","O","N">>,
    <<"I","n","s","u","f","f","i","c","i","e","n","t"," ","C","o","n","t","e","x","t">>,
    <<"I","t"," ","c","a","n","n","o","t"," ","b","e"," ","d","e","t","e","r","m","i","n","e","d">>,
    <<"n","o","t"," ","e","n","o","u","g","h"," ","i","n","f","o","r","m","a","t","i","o","n">>,
    <<"C","a","n","n","o","t"," ","B","e"," ","V","e","r","i","f","i","e","d">>,
    <<"i"," ","d","o","n","'","t"," ","k","n","o","w">>,
    <<"I"," ","d","o","n","'","t"," ","k","n","o","w">>,
    <<"n","o"," ","i","n","f","o","r","m","a","t","i","o","n"," ","p","r","o","v","i","d","e","d">>,
    <<"I"," ","d","o"," ","n","o","t"," ","k","n","o","w">>,
    <<"c","a","n","n","o","t"," "," ","a","n","s","w","e","r">>,
    <<"N","o"," ","i","n","f","o","r","m","a","t","i","o","n">>,
    <<"u","n","l","i","k","e","l","y">>,
    <<"M","A","Y","B","E"," ","s","o">>,
    <<"M","i","g","h","t","y">> }

\* " " + the first k markers of the list, separated by spaces
RECURSIVE TailDistinct(_)
TailDistinct(k) ==
  IF k = 0 THEN <<>> ELSE TailDistinct(k - 1) \o <<" ">> \o uncertainty_markers[k]

\* " maybe" repeated r times
RECURSIVE TailRepeat(_)
TailRepeat(r) ==
  IF r = 0 THEN <<>> ELSE TailRepeat(r - 1) \o <<" ">> \o uncertainty_markers[3]

Tails ==
  {TailDistinct(k) : k \in 0..Len(uncertainty_markers)} \cup {TailRepeat(r) : r \in 2..MaxRepeat}

Texts == {hd \o tl : hd \in Heads, tl \in Tails}

\* the texts compared two by two
PairHeads ==
  { <<>>,
    <<"3","3","0"," ","m","e","t","e","r","s">>,
    <<"u","n","l","i","k","e","l","y">>,
    <<"M","A","Y","B","E"," ","s","o">>,
    <<"i"," ","d","o","n","'","t"," ","k","n","o","w">> }

PairTexts == {hd \o tl : hd \in PairHeads, tl \in Tails}

\* the answers of the model
AnswerHeads ==
  { <<"3","3","0"," ","m","e","t","e","r","s">>,
    <<"I"," ","d","o","n","'","t"," ","k","n","o","w">>,
    <<"N","O","T"," ","E","N","O","U","G","H"," ","I","N","F","O","R","M","A","T","I","O","N">>,
    <<"M","A","Y","B","E"," ","s","o">> }

AnswerTails ==
  {TailDistinct(k) : k \in {0, 2, 3, 4, Len(uncertainty_markers)}} \cup {TailRepeat(MaxRepeat)}

Answers == {hd \o tl : hd \in AnswerHeads, tl \in AnswerTails}

Eiffel == <<"E","i","f","f","e","l"," ","3","3","0"," ","m">>
Paris == <<"P","a","r","i","s">>
Boom == <<"b","o","o","m">>

Queries == {<<>>, <<"H","o","w"," ","t","a","l","l","?">>}

Contexts == {None, Some(<<>>), Some(Paris)}

Docs ==
  { [content |-> Eiffel, metadata |-> [source |-> "wiki"]],
    [content |-> Paris],
    [metadata |-> [source |-> "blank"]] }

RECURSIVE SeqsUpTo(_, _)
SeqsUpTo(S, n) ==
  IF n = 0 THEN {<<>>}
  ELSE LET shorter == SeqsUpTo(S, n - 1)
       IN  shorter \cup {Append(s, x) : s \in {u \in shorter : Len(u) = n - 1}, x \in S}

DocumentLists == SeqsUpTo(Docs, MaxDocs)

Documents == {None} \cup {Some(d) : d \in DocumentLists}

Exceptions ==
  {[type |-> ty, msg |-> Boom] : ty \in ExceptionTypes}
    \cup {[type |-> "ConnectionError", msg |-> <<>>]}

\* what self.model exposes as its documents attribute
ModelDocuments ==
  { [has_documents |-> TRUE, raises |-> FALSE, documents |-> <<>>],
    [has_documents |-> TRUE, raises |-> FALSE,
     documents |-> <<[kind |-> "str", value |-> Paris]>>] }

----------------------------------------------------------------------------
(* Application of the heuristics to drawn texts *)

apply_contains_refusal_phrases(text) ==
  /\ h.op = "none"
  /\ h' = [op |-> "_contains_refusal_phrases", text |-> text,
           out |-> _contains_refusal_phrases(text)]

apply_utils_contains_refusal_phrases(text) ==
  /\ h.op = "none"
  /\ h' = [op |-> "contains_refusal_phrases", text |-> text,
           out |-> contains_refusal_phrases(text)]

apply_estimate_confidence(text, has_context) ==
  /\ h.op = "none"
  /\ h' = [op |-> "_estimate_confidence", text |-> text, has_context |-> has_context,
           out |-> _estimate_confidence(text, has_context)]

apply_utils_estimate_confidence(text, has_context) ==
  /\ h.op = "none"
  /\ h' = [op |-> "estimate_confidence", text |-> text, has_context |-> has_context,
           out |-> estimate_confidence(text, has_context)]

\* two applications of _estimate_confidence with the same has_context
apply_estimate_confidence_twice(text1, text2, has_context) ==
  /\ h.op = "none"
  /\ h' = [op |-> "twice", text1 |-> text1, text2 |-> text2,
           has_context |-> has_context,
           out1 |-> _estimate_confidence(text1, has_context),
           out2 |-> _estimate_confidence(text2, has_context)]

discard ==
  /\ h.op # "none"
  /\ h' = [op |-> "none"]

----------------------------------------------------------------------------
(* Specifications *)

Init ==
  /\ stored_documents = <<>>
  /\ model_documents \in ModelDocuments
  /\ pc = [t \in Callers |-> "idle"]
  /\ args = [t \in Callers |-> None]
  /\ pending = [t \in Callers |-> None]
  /\ model_calls = [t \in Callers |-> <<>>]
  /\ model_outcome = [t \in Callers |-> None]
  /\ result = [t \in Callers |-> None]
  /\ raised = [t \in Callers |-> FALSE]
  /\ h = [op |-> "none"]
  /\ previous = None
  /\ stored_by = None
  /\ read_from = [t \in Callers |-> None]
  /\ appended = [t \in Callers |-> 0]
  /\ ext = None
  /\ http = None

\* calls on one instance, run one at a time
Next ==
  \/ \E t \in Callers, query \in Queries, context \in Contexts, documents \in Documents :
       /\ \A u \in Callers : pc[u] = "idle"
       /\ check_fact(t, query, context, documents)
       /\ UNCHANGED Aux
  \/ \E t \in Callers, answer \in Answers : model_returns(t, answer) /\ UNCHANGED Aux
  \/ \E t \in Callers, e \in Exceptions : model_raises(t, e) /\ UNCHANGED Aux
  \/ \E t \in Callers : call_ends(t) /\ UNCHANGED Aux

Spec == Init /\ [][Next]_vars

HeurVars == <<stored_documents, model_documents, pc, args, pending, model_calls,
              model_outcome, result, raised, previous, stored_by, read_from, appended,
              ext, http>>

NextHeur ==
  \/ \E text \in Texts : apply_contains_refusal_phrases(text) /\ UNCHANGED HeurVars
  \/ \E text \in Texts : apply_utils_contains_refusal_phrases(text) /\ UNCHANGED HeurVars
  \/ \E text \in Texts, has_context \in BOOLEAN :
       apply_estimate_confidence(text, has_context) /\ UNCHANGED HeurVars
  \/ \E text \in Texts, has_context \in BOOLEAN :
       apply_utils_estimate_confidence(text, has_context) /\ UNCHANGED HeurVars
  \/ \E text1 \in PairTexts, text2 \in PairTexts, has_context \in BOOLEAN :
       apply_estimate_confidence_twice(text1, text2, has_context) /\ UNCHANGED HeurVars
  \/ discard /\ UNCHANGED HeurVars

SpecHeur == Init /\ [][NextHeur]_vars

----------------------------------------------------------------------------
(* Application of the source normalizer to drawn documents *)

\* a text of n characters
LongText(n) == [i \in 1..n |-> IF i % 7 = 0 THEN " " ELSE IF i % 2 = 0 THEN "a" ELSE "b"]

\* stored documents: as check_fact stores them (content and metadata) and as
\* extract_information stores them (the request's documents as they are)
SourceDocs ==
  { [content |-> LongText(200), metadata |-> [source |-> "wiki"]],
    [content |-> LongText(201)],
    [content |-> LongText(250), metadata |-> <<>>],
    [content |-> Paris, metadata |-> [source |-> "atlas"]],
    [metadata |-> [source |-> "blank"]] }

StoredChoices == SeqsUpTo(SourceDocs, MaxDocs)

\* elements of model.documents: a str, an object with a content attribute,
\* an object whose content is None (len(content) raises TypeError), a dict
\* with and without a content key, and any other value; str is str(doc)
FallbackItems ==
  { [kind |-> "str", value |-> Paris],
    [kind |-> "str", value |-> LongText(201)],
    [kind |-> "object", content |-> Some(Eiffel), metadata |-> [source |-> "wiki"]],
    [kind |-> "object", content |-> None],
    [kind |-> "dict", value |-> [content |-> Paris], str |-> <<"{","'","c","o","n","t","e","n","t","'",":"," ","'","P","a","r","i","s","'","}">>],
    [kind |-> "dict", value |-> [title |-> Paris], str |-> <<"{","'","t","i","t","l","e","'",":"," ","'","P","a","r","i","s","'","}">>],
    [kind |-> "other", str |-> <<"4","2">>] }

\* self.model without documents attribute, with one whose read raises, and
\* with a list of elements
FallbackProviders ==
  { [has_documents |-> FALSE, raises |-> FALSE, documents |-> <<>>],
    [has_documents |-> TRUE, raises |-> TRUE, documents |-> <<>>] }
    \cup {[has_documents |-> TRUE, raises |-> FALSE, documents |-> d] :
            d \in SeqsUpTo(FallbackItems, MaxDocs)}

apply_get_sources(stored, model) ==
  /\ h.op = "none"
  /\ h' = [op |-> "_get_sources", stored |-> stored, model |-> model,
           out |-> _get_sources(stored, model)]

apply_process_sources(stored, model) ==
  /\ h.op = "none"
  /\ h' = [op |-> "process_sources", stored |-> stored, model |-> model,
           out |-> process_sources(stored, model)]

NextSources ==
  \/ \E stored \in StoredChoices \ {<<>>}, model \in ModelDocuments :
       apply_get_sources(stored, model) /\ UNCHANGED HeurVars
  \/ \E model \in FallbackProviders :
       apply_get_sources(<<>>, model) /\ UNCHANGED HeurVars
  \/ \E stored \in StoredChoices \ {<<>>}, model \in ModelDocuments :
       apply_process_sources(stored, model) /\ UNCHANGED HeurVars
  \/ \E model \in FallbackProviders :
       apply_process_sources(<<>>, model) /\ UNCHANGED HeurVars
  \/ discard /\ UNCHANGED HeurVars

SpecSources == Init /\ [][NextSources]_vars

----------------------------------------------------------------------------
(* Calls run one at a time, the last call that ended remembered *)

RepeatContexts == {None, Some(Paris)}

RepeatDocuments ==
  { None,
    Some(<<[content |-> Eiffel, metadata |-> [source |-> "wiki"]]>>),
    Some(<<[content |-> Paris], [content |-> Paris]>>),
    Some(<<[metadata |-> [source |-> "blank"]]>>),
    Some(<<[content |-> Eiffel, metadata |-> [source |-> "wiki"]],
           [metadata |-> [source |-> "blank"]],
           [content |-> Paris]>>) }

RepeatAnswers == {hd \o TailDistinct(0) : hd \in AnswerHeads}

RepeatExceptions == {[type |-> "TimeoutError", msg |-> Boom]}

\* the caller takes the returned value, which is remembered with the call
call_ends_remembered(t) ==
  /\ call_ends(t)
  /\ previous' = Some([args |-> args[t][1], outcome |-> model_outcome[t],
                       result |-> result[t]])
  /\ UNCHANGED <<stored_by, read_from, appended, ext, http>>

NextRepeat ==
  \/ \E t \in Callers, query \in Queries, context \in RepeatContexts,
        documents \in RepeatDocuments :
       /\ \A u \in Callers : pc[u] = "idle"
       /\ check_fact(t, query, context, documents)
       /\ UNCHANGED Aux
  \/ \E t \in Callers, answer \in RepeatAnswers : model_returns(t, answer) /\ UNCHANGED Aux
  \/ \E t \in Callers, e \in RepeatExceptions : model_raises(t, e) /\ UNCHANGED Aux
  \/ \E t \in Callers : call_ends_remembered(t)

SpecRepeat == Init /\ [][NextRepeat]_vars

----------------------------------------------------------------------------
(* Calls on one instance run concurrently: a call with documents takes one  *)
(* step to reset self.stored_documents, one step for each append, one step  *)
(* to join what is stored and enter the model, one step when the model      *)
(* returns.  stored_by names, for each stored element, the caller whose     *)
(* call in progress appended it (0 once that call has ended) and the        *)
(* request document it was made from.                                       *)

\* the two callers whose calls overlap; any other caller stays idle
Racers == {t \in Callers : t <= 2}

ConcQuery == <<"H", "o", "w", " ", "t", "a", "l", "l", "?">>

ConcDocuments ==
  { None,
    Some(<<[content |-> Eiffel, metadata |-> [source |-> "wiki"]]>>),
    Some(<<[content |-> Paris]>>) }

ConcAnswers == {hd \o TailDistinct(0) : hd \in {h1 \in AnswerHeads : Len(h1) = 10}}

\* check_fact of a call with documents up to self.stored_documents = [];
\* every other call as check_fact
check_fact_enters(t, query, context, documents) ==
  IF query # <<>> /\ Truthy(documents)
  THEN /\ pc[t] = "idle"
       /\ args' = [args EXCEPT ![t] =
                     Some([query |-> query, context |-> context, documents |-> documents])]
       /\ stored_documents' = <<>>
       /\ stored_by' = <<>>
       /\ appended' = [appended EXCEPT ![t] = 0]
       /\ pc' = [pc EXCEPT ![t] = "store"]
       /\ UNCHANGED <<model_documents, pending, model_calls, model_outcome, result,
                      raised, h, previous, read_from, ext, http>>
  ELSE check_fact(t, query, context, documents) /\ UNCHANGED Aux

\* one turn of the loop: self.stored_documents.append({...})
document_appended(t) ==
  /\ pc[t] = "store"
  /\ appended[t] < Len(args[t][1].documents[1])
  /\ LET doc == args[t][1].documents[1][appended[t] + 1]
     IN  /\ stored_documents' = stored_documents \o StoredFrom(<<doc>>)
         /\ stored_by' = Append(stored_by, [by |-> t, document |-> doc])
  /\ appended' = [appended EXCEPT ![t] = @ + 1]
  /\ UNCHANGED <<model_documents, pc, args, pending, model_calls, model_outcome,
                 result, raised, h, previous, read_from, ext, http>>

\* the loop is over: the join of what self.stored_documents holds now, then
\* the model call
documents_joined(t) ==
  /\ pc[t] = "store"
  /\ appended[t] = Len(args[t][1].documents[1])
  /\ LET cc == combined_context(stored_documents)
     IN  IF cc = <<>>
         THEN _process_without_context(t, args[t][1].query)
         ELSE ModelQuery(t, args[t][1].query, Some(cc), TRUE)
  /\ UNCHANGED <<stored_documents, model_documents, args, h>>
  /\ UNCHANGED Aux

model_returns_observed(t, answer) ==
  /\ model_returns(t, answer)
  /\ read_from' = [read_from EXCEPT ![t] = Some(stored_by)]
  /\ UNCHANGED <<previous, stored_by, appended, ext, http>>

call_ends_observed(t) ==
  /\ call_ends(t)
  /\ read_from' = [read_from EXCEPT ![t] = None]
  /\ stored_by' = [i \in 1..Len(stored_by) |->
                     IF stored_by[i].by = t
                     THEN [by |-> 0, document |-> stored_by[i].document]
                     ELSE stored_by[i]]
  /\ UNCHANGED <<previous, appended, ext, http>>

NextConc ==
  \/ \E t \in Racers, documents \in ConcDocuments :
       check_fact_enters(t, ConcQuery, None, documents)
  \/ \E t \in Racers : document_appended(t)
  \/ \E t \in Racers : documents_joined(t)
  \/ \E t \in Racers, answer \in ConcAnswers : model_returns_observed(t, answer)
  \/ \E t \in Racers : call_ends_observed(t)

SpecConc == Init /\ [][NextConc]_vars

----------------------------------------------------------------------------
(* Extraction requests and check_fact calls on one instance, one at a time *)

Height == <<"3","3","0">>

ExtractQueries == {None, Some(ConcQuery)}

ExtractContexts == {None, Some(Paris)}

ExtractDocuments ==
  { None,
    Some(<<>>),
    Some(<<[metadata |-> [source |-> "blank"]], [content |-> <<>>]>>),
    Some(<<[content |-> Eiffel, metadata |-> [source |-> "wiki"]],
           [metadata |-> [source |-> "blank"]],
           [content |-> Paris]>>) }

ExtractFields ==
  { <<[name |-> "height", type |-> <<"S","t","r","i","n","g">>]>>,
    <<[name |-> "error", type |-> <<"i","n","t","e","g","e","r">>]>> }

ExtractRequests ==
  [query : ExtractQueries, context : ExtractContexts, documents : ExtractDocuments,
   fields : ExtractFields]

\* how the construction of the dynamic model ends
SchemaOutcomes == {[built |-> TRUE], [raised |-> [type |-> "TypeError", msg |-> Boom]]}

\* how self.model.extract ends
ExtractOutcomes ==
  { [returned |-> [kind |-> "model", data |-> [height |-> Height], dumps |-> TRUE]],
    [returned |-> [kind |-> "model", data |-> [height |-> Height], dumps |-> FALSE,
                   text |-> Height, dump_error |-> Boom]],
    [returned |-> [kind |-> "dict", data |-> [height |-> Height]]],
    [returned |-> [kind |-> "dict", data |-> [error |-> Height]]],
    [returned |-> [kind |-> "dict", data |-> [error |-> MsgExtractionFailed \o Boom]]],
    [returned |-> [kind |-> "opaque", text |-> Height, str_raises |-> FALSE]],
    [returned |-> [kind |-> "opaque", str_raises |-> TRUE, str_error |-> Boom]],
    [raised |-> [type |-> "ValueError", msg |-> Boom]] }

NextExtract ==
  \/ \E request \in ExtractRequests, schema \in SchemaOutcomes, outcome \in ExtractOutcomes :
       /\ \A u \in Callers : pc[u] = "idle"
       /\ extract(request, schema, outcome)
       /\ UNCHANGED previous
  \/ \E t \in Callers, context \in ExtractContexts, documents \in ConcDocuments :
       /\ \A u \in Callers : pc[u] = "idle"
       /\ check_fact(t, ConcQuery, context, documents)
       /\ UNCHANGED Aux
  \/ \E t \in Callers, answer \in ConcAnswers : model_returns(t, answer) /\ UNCHANGED Aux
  \/ \E t \in Callers, e \in RepeatExceptions : model_raises(t, e) /\ UNCHANGED Aux
  \/ \E t \in Callers : call_ends(t) /\ UNCHANGED Aux

SpecExtract == Init /\ [][NextExtract]_vars

----------------------------------------------------------------------------
(* Requests to the OpenAI-compatible routes, served one at a time *)

ChatMessages ==
  { [role |-> "system", content |-> <<"C","o","n","t","e","x","t",":"," ","P","a","r","i","s">>],
    [role |-> "system", content |-> <<"b","e"," ","b","r","i","e","f","."," ","c","o","n","t","e","x","t",":"," "," ","P","a",
  "r","i","s"," ">>],
    [role |-> "user", content |-> ConcQuery],
    [role |-> "user", content |-> <<"W","h","y","?">>],
    [role |-> "assistant", content |-> <<"3","3","0"," ","m","e","t","e","r","s">>] }

ChatRequests == SeqsUpTo(ChatMessages, MaxMessages)

Prompts ==
  { [kind |-> "str", value |-> <<ConcQuery>>],
    [kind |-> "str", value |-> <<<<>>>>],
    [kind |-> "list", value |-> <<ConcQuery, <<"W","h","y","?">>>>],
    [kind |-> "list", value |-> <<>>] }

ChatAnswers ==
  { <<"3","3","0"," ","m","e","t","e","r","s">>,
    <<"I"," ","d","o","n","'","t"," ","k","n","o","w">> }

NextChat ==
  \/ \E t \in Callers, messages \in ChatRequests : chat_completions(t, messages)
  \/ \E t \in Callers, prompt \in Prompts : completions(t, prompt)
  \/ \E t \in Callers, answer \in ChatAnswers : model_returns(t, answer) /\ UNCHANGED Aux
  \/ \E t \in Callers, e \in RepeatExceptions : model_raises(t, e) /\ UNCHANGED Aux
  \/ \E t \in Callers : responds(t)
  \/ response_sent

SpecChat == Init /\ [][NextChat]_vars

----------------------------------------------------------------------------
(* Extraction requests and check_fact calls one at a time, the last one     *)
(* that ended remembered                                                    *)

SessionRequests ==
  [query : {None}, context : ExtractContexts,
   documents : { None,
                 Some(<<[metadata |-> [source |-> "blank"]], [content |-> <<>>]>>),
                 Some(<<[content |-> Paris, metadata |-> [source |-> "atlas"]],
                        [metadata |-> [source |-> "blank"]],
                        [content |-> Eiffel]>>) },
   fields : {<<[name |-> "height", type |-> <<"S","t","r","i","n","g">>]>>}]

SessionOutcomes ==
  { [returned |-> [kind |-> "model", data |-> [height |-> Height], dumps |-> TRUE]],
    [raised |-> [type |-> "ValueError", msg |-> Boom]] }

\* one POST /extract served, remembered as the last call that ended
extract_remembered(request, schema, outcome) ==
  /\ extract(request, schema, outcome)
  /\ previous' = Some([extract |-> request])

NextSession ==
  \/ \E request \in SessionRequests, schema \in SchemaOutcomes, outcome \in SessionOutcomes :
       /\ \A u \in Callers : pc[u] = "idle"
       /\ extract_remembered(request, schema, outcome)
  \/ \E t \in Callers, query \in Queries, context \in ExtractContexts,
        documents \in ConcDocuments :
       /\ \A u \in Callers : pc[u] = "idle"
       /\ check_fact(t, query, context, documents)
       /\ UNCHANGED Aux
  \/ \E t \in Callers, answer \in ConcAnswers : model_returns(t, answer) /\ UNCHANGED Aux
  \/ \E t \in Callers, e \in RepeatExceptions : model_raises(t, e) /\ UNCHANGED Aux
  \/ \E t \in Callers : call_ends_remembered(t)

SpecSession == Init /\ [][NextSession]_vars

----------------------------------------------------------------------------
(* Vocabulary of the properties *)

UpperOf ==
  [a |-> "A", b |-> "B", c |-> "C", d |-> "D", e |-> "E", f |-> "F", g |-> "G", h |-> "H", i |-> "I", j |-> "J", k |-> "K", l |-> "L", m |-> "M", n |-> "N", o |-> "O", p |-> "P", q |-> "Q", r |-> "R", s |-> "S", t |-> "T", u |-> "U", v |-> "V", w |-> "W", x |-> "X", y |-> "Y", z |-> "Z"]

\* two characters are the same up to letter case
SameLetter(a, b) ==
  \/ a = b
  \/ a \in DOMAIN UpperOf /\ UpperOf[a] = b
  \/ b \in DOMAIN UpperOf /\ UpperOf[b] = a

\* the offsets at which p occurs in t, letter case ignored
OccurrencesOf(p, t) ==
  {i \in 0..(Len(t) - Len(p)) : \A j \in 1..Len(p) : SameLetter(t[i + j], p[j])}

HasRefusalPhrase(t) ==
  \E k \in 1..Len(refusal_phrases) : OccurrencesOf(refusal_phrases[k], t) # {}

\* how many of the eight markers occur in t at least once
DistinctMarkers(t) ==
  Cardinality({k \in 1..Len(uncertainty_markers) :
                 OccurrencesOf(uncertainty_markers[k], t) # {}})

\* how many times markers occur in t, every occurrence counted
RECURSIVE SumOccurrences(_, _)
SumOccurrences(t, k) ==
  IF k = 0 THEN 0
  ELSE Cardinality(OccurrencesOf(uncertainty_markers[k], t)) + SumOccurrences(t, k - 1)

TotalOccurrences(t) == SumOccurrences(t, Len(uncertainty_markers))

Base(has_context) == IF has_context THEN 9 ELSE 3

Floor(x) == IF x < 1 THEN 1 ELSE x

\* the call of caller t: its arguments, the value it returned, the model's answer
Arg(t) == args[t][1]
Res(t) == result[t][1]
Returned(t) == pc[t] = "done" /\ result[t] # None
Answered(t) == model_outcome[t] # None /\ "returned" \in DOMAIN model_outcome[t][1]
Failed(t) == model_outcome[t] # None /\ "raised" \in DOMAIN model_outcome[t][1]
Answer(t) == model_outcome[t][1].returned
Failure(t) == model_outcome[t][1].raised

\* the non-empty contents of the documents argument, joined by a blank line
RECURSIVE ContentsJoined(_)
ContentsJoined(docs) ==
  IF docs = <<>> THEN <<>>
  ELSE LET c == IF "content" \in DOMAIN Head(docs) THEN Head(docs).content ELSE <<>>
           rest == ContentsJoined(Tail(docs))
       IN  IF c = <<>> THEN rest
           ELSE IF rest = <<>> THEN c
           ELSE c \o <<"\n", "\n">> \o rest

IsSuffix(s, t) == Len(s) <= Len(t) /\ SubSeq(t, Len(t) - Len(s) + 1, Len(t)) = s

----------------------------------------------------------------------------
(* Properties of check_fact *)

\* C1: a check_fact call with a non-empty query makes exactly one model query,
\* and the context of that query is taken in priority order: from the
\* documents argument when it is non-empty (the blank-line join of its
\* non-empty contents; the query carries no context when that join is empty),
\* otherwise the context argument when it is non-empty, otherwise none.  A
\* context supplied together with non-empty documents is never used.
C1_ContextPriority ==
  \A t \in Callers :
    (pc[t] # "idle" /\ Arg(t).query # <<>>) =>
      /\ Len(model_calls[t]) = 1
      /\ model_calls[t][1].query = Arg(t).query
      /\ model_calls[t][1].context =
           IF Truthy(Arg(t).documents)
           THEN IF ContentsJoined(Arg(t).documents[1]) = <<>>
                THEN None
                ELSE Some(ContentsJoined(Arg(t).documents[1]))
           ELSE IF Truthy(Arg(t).context)
           THEN Arg(t).context
           ELSE None

\* documents and a different context supplied together: the query carries the
\* documents' contents
C1_Witness ==
  \E t \in Callers :
    /\ Returned(t) /\ Answered(t)
    /\ Truthy(Arg(t).documents) /\ Truthy(Arg(t).context)
    /\ Len(Arg(t).documents[1]) = 2
    /\ model_calls[t][1].context # None
    /\ model_calls[t][1].context # Arg(t).context

\* C2: check_fact with an empty query returns factual = false, confidence 0.0
\* and no sources, and never enters the model.
C2_EmptyQuery ==
  \A t \in Callers :
    (pc[t] # "idle" /\ Arg(t).query = <<>>) =>
      /\ Returned(t)
      /\ Res(t).factual = FALSE
      /\ Res(t).confidence = 0
      /\ Res(t).sources = <<>>
      /\ model_calls[t] = <<>>
      /\ model_outcome[t] = None

\* an empty query with documents and a context, on an instance that has
\* stored documents from an earlier call
C2_Witness ==
  \E t \in Callers :
    /\ Returned(t) /\ Arg(t).query = <<>>
    /\ Truthy(Arg(t).documents) /\ Truthy(Arg(t).context)
    /\ stored_documents # <<>>

\* C3: when the model call of a check_fact call raises, whatever the path and
\* the kind of exception, no exception leaves check_fact and the value
\* returned has factual = false, confidence 0.0, no sources, and an answer
\* that is the error message (the text of the error field, ending with the
\* exception's own message).
C3_FailureIsAResult ==
  \A t \in Callers :
    Failed(t) =>
      /\ ~raised[t]
      /\ Returned(t)
      /\ Res(t).factual = FALSE
      /\ Res(t).confidence = 0
      /\ Res(t).sources = <<>>
      /\ "error" \in DOMAIN Res(t)
      /\ Res(t).answer = Res(t).error
      /\ Res(t).answer # <<>>
      /\ IsSuffix(Failure(t).msg, Res(t).answer)

\* an exception of none of the three named kinds, on the documents path
C3_Witness ==
  \E t \in Callers :
    /\ Failed(t) /\ Returned(t)
    /\ Failure(t).type = "RuntimeError"
    /\ Failure(t).msg # <<>>
    /\ Truthy(Arg(t).documents)
    /\ model_calls[t][1].context # None
    /\ stored_documents # <<>>

\* C4: when the model's answer contains a refusal phrase, the result has
\* factual = false and confidence exactly 0.1, with or without context and
\* whatever uncertainty markers the answer holds.
C4_RefusalPinsConfidence ==
  \A t \in Callers :
    (Returned(t) /\ Answered(t) /\ HasRefusalPhrase(Answer(t))) =>
      /\ Res(t).factual = FALSE
      /\ Res(t).confidence = 1
      /\ Res(t).answer = Answer(t)

\* a refusal in other letter case than the phrase list, with context and
\* with uncertainty markers
C4_Witness ==
  \E t \in Callers :
    /\ Returned(t) /\ Answered(t)
    /\ HasRefusalPhrase(Answer(t))
    /\ ~is_in(refusal_phrases[5], Answer(t))
    /\ DistinctMarkers(Answer(t)) = 2
    /\ model_calls[t][1].context # None
    /\ Res(t).confidence = 1

\* C5: a check_fact call with a non-empty query, no documents and no context
\* returns a confidence below 0.5, whatever the model answers.
C5_NoContextLowConfidence ==
  \A t \in Callers :
    (Returned(t) /\ model_calls[t] # <<>>
       /\ ~Truthy(Arg(t).documents) /\ ~Truthy(Arg(t).context)) =>
      Res(t).confidence < 5

\* no context, an answer without refusal phrase or marker: confidence 0.3
C5_Witness ==
  \E t \in Callers :
    /\ Returned(t) /\ Answered(t)
    /\ ~Truthy(Arg(t).documents) /\ ~Truthy(Arg(t).context)
    /\ ~HasRefusalPhrase(Answer(t))
    /\ DistinctMarkers(Answer(t)) = 0
    /\ Res(t).confidence = 3

\* the call of caller t took the documents path, or the context path
OnDocumentsPath(t) == Truthy(Arg(t).documents)
OnContextPath(t) == ~Truthy(Arg(t).documents) /\ Truthy(Arg(t).context)

\* C6 as stated: on the documents path or the context path, an answer
\* without refusal phrase gives factual = true and a confidence above 0.5.
C6_Original ==
  \A t \in Callers :
    (Returned(t) /\ Answered(t) /\ (OnDocumentsPath(t) \/ OnContextPath(t))
       /\ ~HasRefusalPhrase(Answer(t))) =>
      /\ Res(t).factual = TRUE
      /\ Res(t).confidence > 5

\* C6: on the documents path or the context path, an answer without refusal
\* phrase gives factual = true; its confidence is above 0.5 exactly when the
\* model was queried with a context (on the documents path: some document
\* has non-empty content) and fewer than four of the eight uncertainty
\* markers occur in the answer.
C6_FactualAndConfidence ==
  \A t \in Callers :
    (Returned(t) /\ Answered(t) /\ (OnDocumentsPath(t) \/ OnContextPath(t))
       /\ ~HasRefusalPhrase(Answer(t))) =>
      /\ Res(t).factual = TRUE
      /\ Res(t).confidence > 5 <=>
           /\ OnDocumentsPath(t) => ContentsJoined(Arg(t).documents[1]) # <<>>
           /\ DistinctMarkers(Answer(t)) < 4

\* the documents path with content, three markers in the answer: 0.6
C6_Witness ==
  \E t \in Callers :
    /\ Returned(t) /\ Answered(t) /\ OnDocumentsPath(t)
    /\ ContentsJoined(Arg(t).documents[1]) # <<>>
    /\ ~HasRefusalPhrase(Answer(t))
    /\ DistinctMarkers(Answer(t)) = 3
    /\ Res(t).factual = TRUE
    /\ Res(t).confidence = 6

----------------------------------------------------------------------------
(* Properties of the refusal detector and the confidence estimator *)

\* C7: the refusal detector (the method and its copy in fact_checker_utils)
\* returns true for a text exactly when one of the eight refusal phrases
\* occurs in it as a substring, letter case ignored; it returns false for
\* the empty text.
C7_RefusalDetector ==
  (h.op \in {"_contains_refusal_phrases", "contains_refusal_phrases"}) =>
    /\ h.out = HasRefusalPhrase(h.text)
    /\ h.text = <<>> => h.out = FALSE

\* a phrase of the list written in upper case inside a longer text
C7_Witness ==
  /\ h.op = "_contains_refusal_phrases"
  /\ h.out = TRUE
  /\ ~is_in(refusal_phrases[2], h.text)
  /\ OccurrencesOf(refusal_phrases[2], h.text) = {2}
  /\ DistinctMarkers(h.text) = 1

\* C8 as stated: without refusal phrase the estimate is
\* max(0.1, base - 0.1 * n), n the total number of occurrences of markers.
C8_Original ==
  (h.op \in {"_estimate_confidence", "estimate_confidence"}
     /\ ~HasRefusalPhrase(h.text)) =>
    h.out = Floor(Base(h.has_context) - TotalOccurrences(h.text))

\* C8: without refusal phrase the estimate is max(0.1, base - 0.1 * n), base
\* 0.9 with context and 0.3 without, n the number of the eight markers that
\* occur in the text at least once: a marker that occurs k times subtracts
\* 0.1 once.
C8_DistinctMarkers ==
  (h.op \in {"_estimate_confidence", "estimate_confidence"}
     /\ ~HasRefusalPhrase(h.text)) =>
    h.out = Floor(Base(h.has_context) - DistinctMarkers(h.text))

\* one marker occurring three times, with context: 0.8
C8_Witness ==
  /\ h.op = "_estimate_confidence"
  /\ h.has_context
  /\ ~HasRefusalPhrase(h.text)
  /\ TotalOccurrences(h.text) = 3
  /\ DistinctMarkers(h.text) = 1
  /\ h.out = 8

\* C9: for every text and both values of has_context the estimate lies in
\* [0.1, 0.9].
C9_Range ==
  (h.op \in {"_estimate_confidence", "estimate_confidence"}) =>
    (1 <= h.out /\ h.out <= 9)

\* no context and all eight markers: the subtraction is far below 0.1 and the
\* estimate is 0.1
C9_Witness ==
  /\ h.op = "estimate_confidence"
  /\ ~h.has_context
  /\ ~HasRefusalPhrase(h.text)
  /\ DistinctMarkers(h.text) = 8
  /\ h.out = 1

\* C10: for a fixed has_context and two texts without refusal phrase, if as
\* many or more of the markers occur in the second text as in the first, the
\* second estimate is at most the first, and at least 0.1.
C10_Monotone ==
  (h.op = "twice" /\ ~HasRefusalPhrase(h.text1) /\ ~HasRefusalPhrase(h.text2)
     /\ DistinctMarkers(h.text2) >= DistinctMarkers(h.text1)) =>
    (h.out2 <= h.out1 /\ h.out2 >= 1)

\* a second text with more markers and a strictly lower estimate, although
\* the first text has more occurrences
C10_Witness ==
  /\ h.op = "twice"
  /\ h.has_context
  /\ ~HasRefusalPhrase(h.text1) /\ ~HasRefusalPhrase(h.text2)
  /\ DistinctMarkers(h.text1) = 1 /\ TotalOccurrences(h.text1) = 3
  /\ DistinctMarkers(h.text2) = 2 /\ TotalOccurrences(h.text2) = 2
  /\ h.out1 = 8 /\ h.out2 = 7

----------------------------------------------------------------------------
(* Properties of the sources *)

\* the source entry that document doc gives
EntryOf(doc) ==
  LET c == IF "content" \in DOMAIN doc THEN doc.content ELSE <<>>
  IN  [text |-> IF Len(c) <= 200 THEN c
                ELSE [i \in 1..203 |-> IF i <= 200 THEN c[i] ELSE "."],
       metadata |-> IF "metadata" \in DOMAIN doc THEN doc.metadata ELSE <<>>]

EntriesOf(docs) == [i \in 1..Len(docs) |-> EntryOf(docs[i])]

\* C11: a check_fact call with non-empty documents that the model answers,
\* run without another call in between, returns one source per supplied
\* document, in the order of the documents, equal documents included.
C11_OneSourcePerDocument ==
  \A t \in Callers :
    (Returned(t) /\ Answered(t) /\ Truthy(Arg(t).documents)) =>
      /\ Len(Res(t).sources) = Len(Arg(t).documents[1])
      /\ \A i \in 1..Len(Arg(t).documents[1]) :
           Res(t).sources[i] = EntryOf(Arg(t).documents[1][i])

\* the same document supplied twice gives two equal sources
C11_Witness ==
  \E t \in Callers :
    /\ Returned(t) /\ Answered(t) /\ Truthy(Arg(t).documents)
    /\ Len(Arg(t).documents[1]) = 2
    /\ Arg(t).documents[1][1] = Arg(t).documents[1][2]
    /\ Len(Res(t).sources) = 2
    /\ Res(t).sources[1] = Res(t).sources[2]
    /\ Res(t).sources[1].text # <<>>

\* C12: every source entry derived from a stored document has the
\* document's content as text when the content has at most 200 characters,
\* and its first 200 characters followed by "..." otherwise (never more than
\* 203 characters), and the document's metadata, the empty mapping when the
\* document has none.
C12_TruncatedText ==
  (h.op \in {"_get_sources", "process_sources"} /\ h.stored # <<>>) =>
    /\ Len(h.out) = Len(h.stored)
    /\ \A i \in 1..Len(h.stored) :
         /\ h.out[i] = EntryOf(h.stored[i])
         /\ Len(h.out[i].text) <= 203

\* a content of exactly 200 characters kept whole, next to one of 201
\* characters cut to 200 and "...", the second without metadata
C12_Witness ==
  /\ h.op = "_get_sources"
  /\ Len(h.stored) = 2
  /\ "content" \in DOMAIN h.stored[1] /\ "content" \in DOMAIN h.stored[2]
  /\ Len(h.stored[1].content) = 200 /\ h.out[1].text = h.stored[1].content
  /\ Len(h.stored[2].content) = 201 /\ Len(h.out[2].text) = 203
  /\ h.out[2].text[200] = h.stored[2].content[200]
  /\ h.out[2].text[201] = "."
  /\ "metadata" \notin DOMAIN h.stored[2] /\ h.out[2].metadata = <<>>

\* an element of model.documents whose conversion raises
ElementRaises(doc) == doc.kind = "object" /\ doc.content = <<>>

\* reading or iterating the documents of the fallback provider raises
ProviderRaises(model) ==
  model.has_documents /\
    (model.raises \/ \E i \in 1..Len(model.documents) : ElementRaises(model.documents[i]))

\* C13 as stated: with no stored documents, when reading or iterating the
\* model's documents raises, also after some elements were converted, the
\* source normalizer returns an empty list.
C13_Original ==
  (h.op \in {"_get_sources", "process_sources"} /\ h.stored = <<>>
     /\ ProviderRaises(h.model)) =>
    h.out = <<>>

\* the call of caller t repeats the call that ended just before it: the same
\* arguments, and the model ended the same way
RepeatsPrevious(t) ==
  /\ Returned(t)
  /\ previous # None
  /\ previous[1].args = Arg(t)
  /\ previous[1].outcome = model_outcome[t]
  /\ previous[1].result # None

\* C14: two consecutive check_fact calls on one instance with the same
\* query, context and documents, no call in between and the model answering
\* the same, return the same factual value and the same sources.
C14_Idempotent ==
  \A t \in Callers :
    RepeatsPrevious(t) =>
      /\ Res(t).factual = previous[1].result[1].factual
      /\ Res(t).sources = previous[1].result[1].sources

\* a call with two documents repeated, with two sources both times
C14_Witness ==
  \E t \in Callers :
    /\ RepeatsPrevious(t) /\ Answered(t)
    /\ Truthy(Arg(t).documents)
    /\ Len(Res(t).sources) = 2
    /\ Res(t).factual = TRUE

\* the stored elements that were written by calls of other callers than t
\* that were in progress
WrittenByOthers(w, t) ==
  /\ w # <<>>
  /\ \A i \in 1..Len(w) : w[i].by \notin {0, t}

\* C15: with concurrent calls nothing guards stored_documents between the
\* write (before the model call) and the read (after it): the sources a call
\* returns are the entries of the documents that were in the field when its
\* model call returned, whichever calls appended them.
C15_SourcesOfWhatIsStored ==
  \A t \in Callers :
    (Returned(t) /\ Answered(t) /\ read_from[t] # None) =>
      LET w == read_from[t][1]
      IN  IF w = <<>>
          THEN Res(t).sources = _get_sources(<<>>, model_documents)
          ELSE Res(t).sources = [i \in 1..Len(w) |-> EntryOf(w[i].document)]

\* a call with documents has returned sources made of the documents of
\* another call in progress and not of its own
C15_Witness ==
  \E t \in Callers :
    /\ Returned(t) /\ Answered(t) /\ Truthy(Arg(t).documents)
    /\ read_from[t] # None /\ WrittenByOthers(read_from[t][1], t)
    /\ Res(t).sources # EntriesOf(Arg(t).documents[1])
    /\ \E u \in Callers \ {t} :
         /\ pc[u] # "idle" /\ Truthy(Arg(u).documents)
         /\ Res(t).sources = EntriesOf(Arg(u).documents[1])

\* a call without documents has returned sources made of the documents of
\* another call in progress
C15_WitnessNoDocuments ==
  \E t \in Callers :
    /\ Returned(t) /\ Answered(t) /\ Arg(t).documents = None
    /\ read_from[t] # None /\ WrittenByOthers(read_from[t][1], t)
    /\ \E u \in Callers \ {t} :
         /\ pc[u] # "idle" /\ Truthy(Arg(u).documents)
         /\ Res(t).sources = EntriesOf(Arg(u).documents[1])
         /\ Res(t).sources # <<>>

----------------------------------------------------------------------------
(* Properties of the extraction endpoint *)

\* the last extraction request, how it went and its response
Req == ext[1].request
Served == ext[1].response # None
Resp == ext[1].response[1]

\* no context is available to the request: no context argument and no
\* document with a content
NoContextAvailable ==
  /\ ~Truthy(Req.context)
  /\ \/ ~Truthy(Req.documents)
     \/ \A i \in 1..Len(Req.documents[1]) :
          Get(Req.documents[1][i], "content", <<>>) = <<>>

\* C16: an extraction request with no context and no document content never
\* reaches the model's extract operation and is answered success=false with
\* an error message, the missing-context message whenever the schema was
\* built.
C16_MissingContext ==
  (ext # None /\ NoContextAvailable) =>
    /\ ext[1].calls = <<>>
    /\ Served
    /\ Resp.success = FALSE
    /\ Resp.data = None
    /\ Resp.error # None /\ Resp.error[1] # <<>>
    /\ "built" \in DOMAIN ext[1].schema => Resp.error = Some(MsgMissingContext)

\* documents without content were supplied: the missing-context error
C16_Witness ==
  /\ ext # None /\ NoContextAvailable
  /\ Truthy(Req.documents)
  /\ "built" \in DOMAIN ext[1].schema
  /\ ext[1].calls = <<>>
  /\ Resp.success = FALSE
  /\ Resp.error = Some(MsgMissingContext)

\* the failures of an extraction request
SchemaFailed == "raised" \in DOMAIN ext[1].schema
ExtractFailed == ext[1].outcome # None /\ "raised" \in DOMAIN ext[1].outcome[1]
NormalizationFailed ==
  /\ ext[1].outcome # None /\ "returned" \in DOMAIN ext[1].outcome[1]
  /\ LET v == ext[1].outcome[1].returned
     IN  \/ v.kind = "model" /\ ~v.dumps
         \/ v.kind = "opaque" /\ v.str_raises

----------------------------------------------------------------------------
(* Properties of the OpenAI-compatible routes *)

\* the chat request of caller t is inside check_fact or back from it
ChatInService(t) ==
  /\ http # None /\ http[1].route = "chat" /\ http[1].caller = t
  /\ http[1].response = None
  /\ pc[t] # "idle"

\* the content of the last message of the role, "" if there is none
RECURSIVE LastContent(_, _)
LastContent(messages, role) ==
  IF messages = <<>> THEN <<>>
  ELSE IF messages[Len(messages)].role = role THEN messages[Len(messages)].content
  ELSE LastContent(SubSeq(messages, 1, Len(messages) - 1), role)

\* the position of the last user message, 0 if there is none
LastUser(messages) ==
  IF \E i \in 1..Len(messages) : messages[i].role = "user"
  THEN CHOOSE i \in 1..Len(messages) :
         /\ messages[i].role = "user"
         /\ \A j \in (i + 1)..Len(messages) : messages[j].role # "user"
  ELSE 0

\* the text that follows the first "context:" of text, letter case ignored
AfterMarker(text) == split_once(lower(text), ContextMarker)
AfterMarkerText(text) ==
  SubSeq(text, Len(AfterMarker(text)[1]) + Len(ContextMarker) + 1, Len(text))

IsPrefix(s, t) == Len(s) <= Len(t) /\ SubSeq(t, 1, Len(s)) = s

\* the lines "Assistant: <content>" of the assistant messages among the
\* first n messages, in message order
RECURSIVE AssistantLines(_, _)
AssistantLines(messages, n) ==
  IF n = 0 THEN <<>>
  ELSE AssistantLines(messages, n - 1) \o
         (IF messages[n].role = "assistant"
          THEN AssistantLabel \o messages[n].content \o <<"\n">>
          ELSE <<>>)

\* C18 as stated: when the system message of a chat request holds
\* "context:" in any letter case, check_fact receives the text that follows
\* the marker as its context and the model is queried with a context.
C18_Original ==
  \A t \in Callers :
    (ChatInService(t)
     /\ is_in(ContextMarker, lower(LastContent(http[1].request, "system")))) =>
      /\ Arg(t).context # None
      /\ IsPrefix(strip(AfterMarkerText(LastContent(http[1].request, "system"))),
                  Arg(t).context[1])
      /\ model_calls[t][1].context # None

\* C19 as stated: the query of a chat request is the content of its last
\* user message and every assistant message before that message is part of
\* the context given to check_fact, in message order.
C19_Original ==
  \A t \in Callers :
    ChatInService(t) =>
      LET messages == http[1].request
          lines == AssistantLines(messages, LastUser(messages))
      IN  /\ Arg(t).query = LastContent(messages, "user")
          /\ lines # <<>> =>
               /\ Arg(t).context # None
               /\ IsSuffix(lines, Arg(t).context[1])

\* the sum of the integer quarters of the contents' lengths
RECURSIVE QuarterSum(_)
QuarterSum(messages) ==
  IF messages = <<>> THEN 0
  ELSE (Len(Head(messages).content) \div 4) + QuarterSum(Tail(messages))

RECURSIVE TotalLength(_)
TotalLength(messages) ==
  IF messages = <<>> THEN 0 ELSE Len(Head(messages).content) + TotalLength(Tail(messages))

\* the last request was answered with status 200
Answered200 == http # None /\ http[1].response # None /\ http[1].response[1].status = 200

\* C20: in the response of /completions and of /chat/completions,
\* prompt_tokens is the prompt's length integer-divided by 4 (for chat, the
\* sum over the messages of each content's length integer-divided by 4),
\* completion_tokens is the returned answer's length integer-divided by 4,
\* and total_tokens is their sum.
C20_TokenUsage ==
  Answered200 =>
    LET body == http[1].response[1]
    IN  /\ body.usage.prompt_tokens =
             (IF http[1].route = "chat" THEN QuarterSum(http[1].request)
              ELSE Len(http[1].request.value[1]) \div 4)
        /\ body.usage.completion_tokens = Len(body.text) \div 4
        /\ body.usage.total_tokens =
             body.usage.prompt_tokens + body.usage.completion_tokens

\* a chat response whose prompt_tokens, summed per message, is less than the
\* quarter of the total length, and whose answer has a length that is not a
\* multiple of 4
C20_Witness ==
  /\ Answered200 /\ http[1].route = "chat"
  /\ Len(http[1].request) = 3
  /\ http[1].response[1].usage.prompt_tokens < TotalLength(http[1].request) \div 4
  /\ Len(http[1].response[1].text) % 4 # 0
  /\ http[1].response[1].usage.completion_tokens > 0
  /\ http[1].response[1].usage.total_tokens > http[1].response[1].usage.prompt_tokens

----------------------------------------------------------------------------
(* Properties of the stored documents *)

\* the call of caller t is past the choice of its path
InCall(t) == pc[t] \in {"query", "done"} /\ args[t] # None

\* the call of caller t takes the documents path
WithDocuments(t) == InCall(t) /\ Arg(t).query # <<>> /\ Truthy(Arg(t).documents)

\* the content and the metadata of each document, defaults filled in
ContentAndMetadata(docs) ==
  [i \in 1..Len(docs) |->
     [content |-> IF "content" \in DOMAIN docs[i] THEN docs[i].content ELSE <<>>,
      metadata |-> IF "metadata" \in DOMAIN docs[i] THEN docs[i].metadata ELSE <<>>]]

\* C21: on the documents path the stored documents are this request's
\* documents and nothing else, and the model is queried with the documents'
\* non-empty contents joined by a blank line, in document order.
C21_DocumentsPath ==
  \A t \in Callers :
    WithDocuments(t) =>
      /\ stored_documents = ContentAndMetadata(Arg(t).documents[1])
      /\ ContentsJoined(Arg(t).documents[1]) # <<>> =>
           model_calls[t] = <<[query |-> Arg(t).query,
                               context |-> Some(ContentsJoined(Arg(t).documents[1]))]>>

\* after a call with two documents, a call with three documents, the second
\* without content: three stored documents and a context of two contents
C21_Witness ==
  \E t \in Callers :
    /\ WithDocuments(t) /\ pc[t] = "query"
    /\ previous # None /\ Truthy(previous[1].args.documents)
    /\ previous[1].args.query # <<>>
    /\ Len(previous[1].args.documents[1]) = 2
    /\ Len(Arg(t).documents[1]) = 3
    /\ Len(stored_documents) = 3
    /\ stored_documents[2].content = <<>>
    /\ model_calls[t][1].context = Some(Eiffel \o <<"\n", "\n">> \o Paris)

\* the documents of the call of caller t have no content at all
FallsThrough(t) == WithDocuments(t) /\ ContentsJoined(Arg(t).documents[1]) = <<>>

\* the confidence of an answer on the no-context path, in tenths
NoContextConfidence(answer) ==
  IF HasRefusalPhrase(answer) THEN 1 ELSE Floor(Base(FALSE) - DistinctMarkers(answer))

\* C22: when documents are supplied and none has a content, the model is
\* queried with the query alone and the confidence is the one of a request
\* without context, whether or not a context argument came with the call.
C22_FallThrough ==
  \A t \in Callers :
    FallsThrough(t) =>
      /\ model_calls[t] = <<[query |-> Arg(t).query, context |-> None]>>
      /\ (Returned(t) /\ Answered(t)) =>
           Res(t).confidence = NoContextConfidence(Answer(t))

\* documents without content and a context argument: the context is unused
C22_Witness ==
  \E t \in Callers :
    /\ FallsThrough(t) /\ Returned(t) /\ Answered(t)
    /\ Truthy(Arg(t).context)
    /\ model_calls[t][1].context = None
    /\ Res(t).factual = TRUE
    /\ Res(t).confidence = 3

\* the step is a step of the call of caller t, whose arguments are CallArgs
StepOf(t) == pc'[t] # pc[t]
CallArgs(t) == IF args[t] # None THEN args[t][1] ELSE args'[t][1]

\* C23: no step of a check_fact call that supplies no documents, or that has
\* an empty query, changes the stored documents: not its start, not the
\* model's answer, not the model's failure, not its return.
C23_NoDocumentsNoChange ==
  [][\A t \in Callers :
       (StepOf(t) /\ (~Truthy(CallArgs(t).documents) \/ CallArgs(t).query = <<>>))
         => stored_documents' = stored_documents]_vars

\* a call with a context only has failed and the documents of an earlier
\* call are still stored
C23_Witness ==
  \E t \in Callers :
    /\ Returned(t) /\ Failed(t)
    /\ Arg(t).documents = None /\ Truthy(Arg(t).context)
    /\ Len(stored_documents) = 2
    /\ Res(t).sources = <<>>

----------------------------------------------------------------------------
(* Properties of the sources of a call that supplies no documents *)

\* the call that ended just before stored its documents
PreviousStored ==
  /\ previous # None
  /\ "args" \in DOMAIN previous[1]
  /\ previous[1].args.query # <<>>
  /\ Truthy(previous[1].args.documents)

\* C24: a successful check_fact call without documents that follows a call
\* with documents D returns the sources derived from D; had the earlier call
\* supplied other documents, with other entries, the sources of the later
\* call would be other too.
C24_SourcesOfEarlierDocuments ==
  \A t \in Callers :
    (Returned(t) /\ Answered(t) /\ ~Truthy(Arg(t).documents) /\ PreviousStored) =>
      LET D == previous[1].args.documents[1]
      IN  /\ Res(t).sources = EntriesOf(D)
          /\ \A D2 \in RepeatDocuments :
               (Truthy(D2) /\ EntriesOf(D2[1]) # EntriesOf(D)) =>
                 _get_sources(StoredFrom(D2[1]), model_documents) # Res(t).sources

\* a call with only a context returns the two sources of the documents of
\* the call before it
C24_Witness ==
  \E t \in Callers :
    /\ Returned(t) /\ Answered(t) /\ PreviousStored
    /\ Arg(t).documents = None /\ Truthy(Arg(t).context)
    /\ Len(previous[1].args.documents[1]) = 2
    /\ Len(Res(t).sources) = 2
    /\ Res(t).sources[1].text = Paris

\* the call that ended last is an extraction that took its context from its
\* documents; ext describes it; the call in progress, if any, has no documents
PreviousExtractionStored ==
  /\ \A u \in Callers : args[u] # None => ~Truthy(Arg(u).documents)
  /\ previous # None /\ "extract" \in DOMAIN previous[1]
  /\ ext # None /\ Req = previous[1].extract
  /\ "built" \in DOMAIN ext[1].schema
  /\ Truthy(Req.documents) /\ ~Truthy(Req.context)

\* C25: an extraction call with documents and no context leaves its
\* documents as the stored documents and extracts from their non-empty
\* contents joined by a blank line; the check_fact call without documents
\* that follows it returns the sources derived from these documents.
C25_ExtractionStores ==
  PreviousExtractionStored =>
    /\ stored_documents = Req.documents[1]
    /\ ContentsJoined(Req.documents[1]) # <<>> =>
         /\ Len(ext[1].calls) = 1
         /\ ext[1].calls[1].context = ContentsJoined(Req.documents[1])
    /\ \A t \in Callers :
         (Returned(t) /\ Answered(t) /\ ~Truthy(Arg(t).documents)) =>
           Res(t).sources = EntriesOf(Req.documents[1])

\* after an extraction from three documents, a call with a context only
\* returns their three sources
C25_Witness ==
  \E t \in Callers :
    /\ PreviousExtractionStored
    /\ Len(Req.documents[1]) = 3
    /\ ext[1].calls # <<>>
    /\ ext[1].calls[1].context = Paris \o <<"\n", "\n">> \o Eiffel
    /\ Returned(t) /\ Answered(t)
    /\ Arg(t).documents = None /\ Truthy(Arg(t).context)
    /\ Len(Res(t).sources) = 3
    /\ Res(t).sources[1] = [text |-> Paris, metadata |-> [source |-> "atlas"]]
    /\ Res(t).sources[2].text = <<>>

\* C26: a call on the documents path whose model call fails returns empty
\* sources and leaves its own documents stored; the successful call without
\* documents that follows it returns the sources of the failed call's
\* documents.
C26_FailureKeepsDocuments ==
  \A t \in Callers :
    /\ (Returned(t) /\ Failed(t) /\ WithDocuments(t)) =>
         /\ Res(t).sources = <<>>
         /\ stored_documents = ContentAndMetadata(Arg(t).documents[1])
    /\ (Returned(t) /\ Answered(t) /\ ~Truthy(Arg(t).documents)
        /\ PreviousStored /\ "raised" \in DOMAIN previous[1].outcome[1]) =>
         /\ previous[1].result[1].sources = <<>>
         /\ Res(t).sources = EntriesOf(previous[1].args.documents[1])

\* a call with one document failed; the call without documents and without
\* context after it returns that document as its source
C26_Witness ==
  \E t \in Callers :
    /\ Returned(t) /\ Answered(t)
    /\ Arg(t).documents = None /\ Arg(t).context = None
    /\ PreviousStored /\ "raised" \in DOMAIN previous[1].outcome[1]
    /\ previous[1].result[1].sources = <<>>
    /\ Len(previous[1].args.documents[1]) = 1
    /\ Res(t).sources = <<[text |-> Eiffel, metadata |-> [source |-> "wiki"]]>>

----------------------------------------------------------------------------
(* Properties of every result *)

IsErrorResult(r) == "error" \in DOMAIN r

\* C27: in every result check_fact returns, factual = false comes with a
\* confidence of 0.0 or 0.1, a confidence of 0.0 comes only with an error
\* result, and an error result has no sources.
C27_ResultShape ==
  \A t \in Callers :
    Returned(t) =>
      /\ Res(t).factual = FALSE => Res(t).confidence \in {0, 1}
      /\ Res(t).confidence = 0 => IsErrorResult(Res(t))
      /\ IsErrorResult(Res(t)) => Res(t).sources = <<>>

\* a refusal with documents stored: not factual, 0.1, sources listed, while
\* the answer had a context
C27_Witness ==
  \E t \in Callers :
    /\ Returned(t) /\ Answered(t) /\ WithDocuments(t)
    /\ model_calls[t][1].context # None
    /\ Res(t).factual = FALSE
    /\ Res(t).confidence = 1
    /\ Res(t).sources # <<>>

----------------------------------------------------------------------------
(* The stored documents over a sequence of calls *)

\* the step starts a check_fact call of caller t that stores its documents
StoringCall(t) ==
  /\ pc[t] = "idle" /\ pc'[t] # "idle"
  /\ args'[t][1].query # <<>>
  /\ Truthy(args'[t][1].documents)

\* the step serves an extraction request (no caller moves); ext' describes it
ExtractionStep == pc' = pc /\ ext' # None

\* the step serves an extraction request whose service call takes its
\* context from its documents
StoringExtraction ==
  /\ ExtractionStep
  /\ "built" \in DOMAIN ext'[1].schema
  /\ Truthy(ext'[1].request.documents)
  /\ ~Truthy(ext'[1].request.context)

\* C28: over check_fact and extraction calls run one at a time, the stored
\* documents are empty at first, become the documents of a check_fact call
\* with a non-empty query and non-empty documents when it starts, become the
\* documents of an extraction call with non-empty documents and no context,
\* and are left as they are by every other step: they are those of the most
\* recent such call.
C28_MostRecentStoringCall ==
  /\ stored_documents = <<>>
  /\ [][/\ \A t \in Callers :
            StoringCall(t) =>
              stored_documents' = ContentAndMetadata(args'[t][1].documents[1])
        /\ StoringExtraction => stored_documents' = ext'[1].request.documents[1]
        /\ (~StoringExtraction /\ \A t \in Callers : ~StoringCall(t)) =>
              stored_documents' = stored_documents]_vars

\* the extraction that ended last supplied a context and three documents;
\* the stored document is still the one of the check_fact call before it
C28_Witness ==
  /\ \A u \in Callers : pc[u] = "idle"
  /\ previous # None /\ "extract" \in DOMAIN previous[1]
  /\ ext # None /\ Req = previous[1].extract
  /\ "built" \in DOMAIN ext[1].schema
  /\ Truthy(Req.context) /\ Truthy(Req.documents)
  /\ Len(Req.documents[1]) = 3
  /\ ext[1].calls # <<>>
  /\ stored_documents = <<[content |-> Eiffel, metadata |-> [source |-> "wiki"]]>>

----------------------------------------------------------------------------
(* Sources of a call whose documents have no content *)

\* C29: a check_fact call whose documents all lack a content, answered by
\* the model, lists one source per supplied document, each with an empty
\* text and the document's metadata, and has a confidence of at most 0.3.
C29_EmptySourcesListed ==
  \A t \in Callers :
    (FallsThrough(t) /\ Returned(t) /\ Answered(t)) =>
      /\ Len(Res(t).sources) = Len(Arg(t).documents[1])
      /\ \A i \in 1..Len(Arg(t).documents[1]) :
           /\ Res(t).sources[i].text = <<>>
           /\ Res(t).sources[i].metadata =
                Get(Arg(t).documents[1][i], "metadata", <<>>)
      /\ Res(t).confidence <= 3

\* two documents without content: two sources with an empty text, 0.3
C29_Witness ==
  \E t \in Callers :
    /\ FallsThrough(t) /\ Returned(t) /\ Answered(t)
    /\ Len(Arg(t).documents[1]) = 2
    /\ Len(Res(t).sources) = 2
    /\ Res(t).sources[1].text = <<>> /\ Res(t).sources[2].text = <<>>
    /\ Res(t).sources[1].metadata # <<>>
    /\ model_calls[t][1].context = None
    /\ Res(t).confidence = 3

----------------------------------------------------------------------------
(* A mapping with an "error" key returned by the model's extract *)

\* the model's extract returned a mapping that has the key "error"
ReturnedErrorKey ==
  /\ ext # None /\ ext[1].outcome # None
  /\ "returned" \in DOMAIN ext[1].outcome[1]
  /\ ext[1].outcome[1].returned.kind = "dict"
  /\ "error" \in DOMAIN ext[1].outcome[1].returned.data

\* C30: when the model's extract returns a mapping with the key "error", the
\* response is success=false with the key's value as error and no data; it
\* is the very response of a request whose extract call fails with the
\* message that the value carries.
C30_ErrorKeyIsFailure ==
  ReturnedErrorKey =>
    LET v == ext[1].outcome[1].returned.data.error
    IN  /\ Served
        /\ Resp = [success |-> FALSE, data |-> None, error |-> Some(v)]
        /\ \A o \in ExtractOutcomes :
             ("raised" \in DOMAIN o /\ v = MsgExtractionFailed \o o.raised.msg) =>
               route_extract_information(Req, ext[1].schema, o).response = ext[1].response

\* the schema declares a field "error", the extraction returns a mapping
\* with that field, and the response is the one of a failed extract call
C30_Witness ==
  /\ ReturnedErrorKey
  /\ Req.fields[1].name = "error"
  /\ Len(ext[1].calls) = 1
  /\ Resp.success = FALSE /\ Resp.data = None
  /\ Resp.error = Some(MsgExtractionFailed \o Boom)
  /\ \E o \in ExtractOutcomes :
       /\ "raised" \in DOMAIN o
       /\ route_extract_information(Req, ext[1].schema, o).response = ext[1].response

====
